---------------------------- MODULE Spec2Model ----------------------------
(***************************************************************************)
(* Model of the ticket bot's durable store ("bot - nube.py", third copy in *)
(* src/unnamed/part_000, lines 1495-2601): the in-memory tables of Store,  *)
(* the append-only journals ventas.log / devoluciones.log, the snapshot    *)
(* files registro.csv / devoluciones.csv, the handlers handle_message,     *)
(* vendido_cmd and remover_carton running as asyncio tasks, the            *)
(* assignment commands comando_lote and quitar_lote, the helpers           *)
(* atomic_write_csv and append_log_line step by step, and the startup      *)
(* sequence load_all_sync + reconcile_from_logs_sync.                      *)
(*                                                                         *)
(* A journal line is modelled as the sequence of its ';'-separated parts,  *)
(* a table as the sequence of its rows.  Handlers are cut into the pieces  *)
(* that run between two awaits; `loop` names the task that currently has   *)
(* the event loop (0: the loop is free to resume any ready task).          *)
(***************************************************************************)
EXTENDS Integers, Sequences, FiniteSets, TLC

VARIABLES
    users_df,          \* Store.users_df: rows usuario_id, nombre_usuario, nombre_completo
    reg_df,            \* Store.reg_df: active sales
    lotes_df,          \* Store.lotes_df: assignments
    devs_df,           \* Store.devs_df: returns
    reg_lock,          \* Store.reg_lock: [holder, waiters]
    ventas_log,        \* ventas.log, one element per line
    devol_log,         \* devoluciones.log
    registro_csv,      \* registro.csv (rows under the header)
    devoluciones_csv,  \* devoluciones.csv
    lotes_csv,         \* lotes.csv
    aw,                \* a call of atomic_write_csv on registro.csv: position and locals
    al,                \* a call of append_log_line on ventas.log: position and locals
    users_lock,        \* Store.users_lock: [holder, waiters]
    usuarios_pendientes, \* ids of the users asked for their user name
    kicked_users,      \* ids blocked by /kick until the next process start
    usuarios_csv,      \* usuarios.csv
    reconciled,        \* runs of reconcile_from_logs_sync in the running process
    RANGO,             \* the cached range <<inicio, fin>> of rango.txt, <<>> when None
    off,               \* OFF_TASK, OFF_DEADLINE, the clock and the shutdown tasks alive
    nube,              \* bot_nube.py: the Drive CSVs, CSV_LOCK and the handler running
    task,              \* one record per handler task: position and locals
    loop,              \* the task running on the event loop, 0 when it is idle
    nops,              \* updates dispatched so far (bounded by MaxOps)
    restarts           \* process starts after the first one (bounded by MaxRestarts)

vars == <<users_df, reg_df, lotes_df, devs_df, reg_lock, ventas_log, devol_log,
          registro_csv, devoluciones_csv, lotes_csv, aw, al, users_lock,
          usuarios_pendientes, kicked_users, usuarios_csv, reconciled, RANGO, off, nube,
          task, loop, nops, restarts>>

-----------------------------------------------------------------------------
(* Bounds *)

NProc == 2
MaxTicket == 2
MaxOps == 3
MaxOpsAll == 2
MaxOpsLote == 3
MaxRestarts == 1
MaxRuns == 2
MaxLines == 3
MaxDevol == 1
MaxRows == 2
NProcReg == 3
MaxOpsReg == 5

Procs == 1..NProc
Tickets == 1..MaxTicket

-----------------------------------------------------------------------------
(* Users known to the bot.  Telegram ids are modelled by small integers.   *)

UserIds == {1, 2}

FullName(uid) == IF uid = 1 THEN "Ana A" ELSE "Luis L"

InitialUsers ==
    << [usuario_id |-> 1, nombre_usuario |-> "ana", nombre_completo |-> "Ana A"],
       [usuario_id |-> 2, nombre_usuario |-> "luis", nombre_completo |-> "Luis L"] >>

\* datetime.now().strftime(...) has a resolution of one second: every
\* operation of a run can carry the same stamp.
Now == "t0"

-----------------------------------------------------------------------------
(* Generic sequence helpers *)

Range(s) == {s[i] : i \in DOMAIN s}

RECURSIVE SeqOfSet(_)
SeqOfSet(S) ==
    \* sorted(S) for a set of integers
    IF S = {} THEN <<>>
    ELSE LET m == CHOOSE x \in S : \A y \in S : x <= y
         IN  <<m>> \o SeqOfSet(S \ {m})

RowsOfTicket(df, n) == Cardinality({i \in DOMAIN df : df[i].imagen = n})

-----------------------------------------------------------------------------
(* Text of integers: f"{uid}" and int(text) *)

NumText == <<"1", "2", "3", "4", "5">>

Str(n) == NumText[n]

IsIntText(s) == \E i \in DOMAIN NumText : NumText[i] = s

ToInt(s) == CHOOSE i \in DOMAIN NumText : NumText[i] = s

\* text.split(";"): of the names of this model only "a;1" holds a ';' and
\* makes two parts, every other name is one part
SplitSemicolon(s) == IF s = "a;1" THEN <<"a", "1">> ELSE <<s>>

-----------------------------------------------------------------------------
(* Journal lines *)

VentaLine(uid, nombre, n, ts) ==
    <<"venta", Str(uid)>> \o SplitSemicolon(nombre) \o <<Str(n), ts>>

DevolLine(uid, nombre, n, ts, user_name) ==
    <<"devol", Str(uid)>> \o SplitSemicolon(nombre) \o <<Str(n), ts>>
        \o SplitSemicolon(user_name)

NoEvent == [tipo |-> "none"]

parse_log_line(parts) ==
    IF Len(parts) < 5 THEN NoEvent
    ELSE IF parts[1] \notin {"venta", "devol"} THEN NoEvent
    ELSE IF ~IsIntText(parts[2]) \/ ~IsIntText(parts[4]) THEN NoEvent
    ELSE [tipo |-> parts[1], usuario_id |-> ToInt(parts[2]),
          nombre_usuario |-> parts[3], imagen |-> ToInt(parts[4]),
          ts |-> parts[5], extra |-> IF Len(parts) > 5 THEN parts[6] ELSE ""]

-----------------------------------------------------------------------------
(* Rows *)

RegRow(uid, nombre, n) ==
    [usuario_id |-> uid, nombre_usuario |-> nombre, imagen |-> n, devuelto_por |-> ""]

DevRow(uid, nombre, n, por, fecha) ==
    [usuario_id |-> uid, nombre_usuario |-> nombre, imagen |-> n,
     devuelto_por |-> por, fecha |-> fecha]

Key(r) == <<r.usuario_id, r.nombre_usuario, r.imagen>>

-----------------------------------------------------------------------------
(* reconcile_from_logs_sync *)

\* the parsed lines of a journal file that carry the wanted event type
ReadEvents(log, tipo) ==
    LET parsed == [i \in DOMAIN log |-> parse_log_line(log[i])]
    IN  SelectSeq(parsed, LAMBDA e : e.tipo = tipo)

RECURSIVE NewSaleRows(_, _)
\* the loop over ventas: rows whose key is not yet in `existing`
NewSaleRows(ventas, existing) ==
    IF ventas = <<>> THEN <<>>
    ELSE LET v == Head(ventas)
             key == <<v.usuario_id, v.nombre_usuario, v.imagen>>
         IN  IF key \notin existing
             THEN <<RegRow(v.usuario_id, v.nombre_usuario, v.imagen)>>
                      \o NewSaleRows(Tail(ventas), existing \cup {key})
             ELSE NewSaleRows(Tail(ventas), existing)

\* a merge that inserts every journaled sale, present in the table or not
MergeVentasNoDedup(df, ventas) ==
    df \o [i \in DOMAIN ventas |->
              RegRow(ventas[i].usuario_id, ventas[i].nombre_usuario, ventas[i].imagen)]

MergeVentas(df, ventas) ==
    df \o NewSaleRows(ventas, {Key(df[i]) : i \in DOMAIN df})

\* a mask that is taken to match whatever the table holds
DevolMatchesAny(df, d) == TRUE

\* mask.any() for one return event against the merged sales table
DevolMatches(df, d) ==
    \E i \in DOMAIN df : Key(df[i]) = <<d.usuario_id, d.nombre_usuario, d.imagen>>

MatchedDevols(df, devols) == SelectSeq(devols, LAMBDA d : DevolMatches(df, d))

DevRowsOf(df, devols) ==
    LET m == MatchedDevols(df, devols)
    IN  [i \in DOMAIN m |->
            DevRow(m[i].usuario_id, m[i].nombre_usuario, m[i].imagen, m[i].extra, m[i].ts)]

RemoveReturned(df, devols) ==
    LET gone == {<<d.usuario_id, d.nombre_usuario, d.imagen>> : d \in Range(devols)}
    IN  SelectSeq(df, LAMBDA r : Key(r) \notin gone)

ReconcileDevs(devs, dev_rows) == devs \o dev_rows

\* what reconcile_from_logs_sync writes to the logger: one warning for each
\* atomic_write_csv of it that raised, and nothing else
ReconcileWarnings(reg, vlog, dlog, w1, w2, w3) ==
    LET ventas   == ReadEvents(vlog, "venta")
        devols   == ReadEvents(dlog, "devol")
        merged   == MergeVentas(reg, ventas)
        dev_rows == DevRowsOf(merged, devols)
        reg2     == RemoveReturned(merged, devols)
    IN  (IF merged # reg /\ ~w1
            THEN <<"No se pudo guardar registro.csv en reconciliacion">> ELSE <<>>)
        \o (IF reg2 # merged /\ ~w2
            THEN <<"No se pudo guardar registro.csv (post-devol)">> ELSE <<>>)
        \o (IF dev_rows # <<>> /\ ~w3
            THEN <<"No se pudo guardar devoluciones.csv">> ELSE <<>>)

\* the tables and files reconcile_from_logs_sync leaves; w1, w2, w3 tell
\* whether its three atomic_write_csv calls succeed
\* a reconciliation that does not write registro.csv again after it has
\* taken the returned rows out of reg_df
ReconciledNoSecondWrite(reg, devs, vlog, dlog, rcsv, dcsv, w1, w2, w3) ==
    LET ventas   == ReadEvents(vlog, "venta")
        devols   == ReadEvents(dlog, "devol")
        merged   == MergeVentas(reg, ventas)
        rcsv1    == IF merged # reg /\ w1 THEN merged ELSE rcsv
        dev_rows == DevRowsOf(merged, devols)
        reg2     == RemoveReturned(merged, devols)
        devs2    == IF dev_rows # <<>> THEN ReconcileDevs(devs, dev_rows) ELSE devs
        dcsv2    == IF dev_rows # <<>> /\ w3 THEN devs2 ELSE dcsv
    IN  [reg |-> reg2, devs |-> devs2, rcsv |-> rcsv1, dcsv |-> dcsv2]

Reconciled(reg, devs, vlog, dlog, rcsv, dcsv, w1, w2, w3) ==
    LET ventas   == ReadEvents(vlog, "venta")
        devols   == ReadEvents(dlog, "devol")
        merged   == MergeVentas(reg, ventas)
        rcsv1    == IF merged # reg /\ w1 THEN merged ELSE rcsv
        dev_rows == DevRowsOf(merged, devols)
        reg2     == RemoveReturned(merged, devols)
        rcsv2    == IF reg2 # merged /\ w2 THEN reg2 ELSE rcsv1
        devs2    == IF dev_rows # <<>> THEN ReconcileDevs(devs, dev_rows) ELSE devs
        dcsv2    == IF dev_rows # <<>> /\ w3 THEN devs2 ELSE dcsv
    IN  [reg |-> reg2, devs |-> devs2, rcsv |-> rcsv2, dcsv |-> dcsv2]

-----------------------------------------------------------------------------
(* Tasks and locks *)

IdleTask == [pc |-> "idle", op |-> "none", uid |-> 0, nombre |-> "", nums |-> {},
             dfl |-> <<>>, todo |-> <<>>, rows |-> <<>>, df |-> <<>>,
             conflictos |-> <<>>, dfu |-> <<>>, devs |-> <<>>]

FreeLock == [holder |-> 0, waiters |-> <<>>]

\* no shutdown is scheduled: OFF_TASK and OFF_DEADLINE are None (0), no
\* _shutdown_after_delay__off task is alive; clock is loop.time()
NoOff == [OFF_TASK |-> 0, OFF_DEADLINE |-> 0, clock |-> 0, alive |-> {}, made |-> 0]

\* bot_nube.py at rest: registro.csv and devoluciones.csv of the Drive folder
\* hold their headers only, CSV_LOCK (line 52) is free (0), no handler runs
NubeIdle ==
    [registro |-> <<>>, devoluciones |-> <<>>, CSV_LOCK |-> 0, pc |-> "idle", op |-> "",
     uid |-> 0, todo |-> <<>>, removed |-> {}, ops |-> 0]

\* no call of atomic_write_csv / append_log_line is being followed step by step
IdleWrite == [pc |-> "idle", attempt |-> 0, df |-> <<>>, old |-> <<>>, tmp |-> <<>>,
              tmp_exists |-> FALSE, last_exc |-> FALSE]

IdleAppend == [pc |-> "idle", attempt |-> 0, line |-> <<>>, last_exc |-> FALSE]

\* asyncio.Lock.release: the lock passes to the first waiter, if any
\* a release that frees the lock and wakes nobody
ReleasedNoWakeup(lock) == [lock EXCEPT !.holder = 0]

Released(lock) ==
    IF lock.waiters = <<>> THEN FreeLock
    ELSE [holder |-> Head(lock.waiters), waiters |-> Tail(lock.waiters)]

\* `async with store.reg_lock` can be entered without suspending, or the
\* lock was handed to p while it waited
CanEnter(p) == reg_lock.holder \in {0, p}

\* the lock after a block that p entered and left within one step
AfterBlock(p) == IF reg_lock.holder = p THEN Released(reg_lock) ELSE reg_lock

Runnable(p) == loop \in {0, p}

canon(s) == IF s = "ANA" THEN "ana" ELSE IF s = "LUIS" THEN "luis" ELSE s

Registered(uid) == \E i \in DOMAIN users_df : users_df[i].usuario_id = uid

NameOfUid(uid) ==
    LET i == CHOOSE j \in DOMAIN users_df : users_df[j].usuario_id = uid
    IN  users_df[i].nombre_usuario

\* {int(r.carton): owner for r in rows}: a later row overwrites an earlier one
HasOwner(dfl, n) == \E i \in DOMAIN dfl : dfl[i].carton = n

OwnerOf(dfl, n) ==
    LET i == CHOOSE j \in DOMAIN dfl :
                 dfl[j].carton = n /\ \A k \in DOMAIN dfl : dfl[k].carton = n => k <= j
    IN  dfl[i].nombre_usuario

LoteOf(dfl, nombre) ==
    {dfl[i].carton : i \in {j \in DOMAIN dfl : canon(dfl[j].nombre_usuario) = canon(nombre)}}

SoldTickets(df) == {df[i].imagen : i \in DOMAIN df}

\* an append that returns without having written the line
append_log_line_lost(log, line) == log

append_log_line(log, line) == Append(log, line)

Finish(p) ==
    /\ task' = [task EXCEPT ![p] = IdleTask]
    /\ loop' = 0

-----------------------------------------------------------------------------
(* Initial state: Store() after load_all_sync found usuarios.csv with two  *)
(* registered users and no other file.                                     *)

Init ==
    /\ users_df = InitialUsers
    /\ reg_df = <<>>
    /\ lotes_df = <<>>
    /\ devs_df = <<>>
    /\ reg_lock = FreeLock
    /\ ventas_log = <<>>
    /\ devol_log = <<>>
    /\ registro_csv = <<>>
    /\ devoluciones_csv = <<>>
    /\ lotes_csv = <<>>
    /\ aw = IdleWrite
    /\ al = IdleAppend
    /\ users_lock = FreeLock
    /\ usuarios_pendientes = {}
    /\ kicked_users = {}
    /\ usuarios_csv = InitialUsers
    /\ reconciled = 1
    /\ RANGO = <<>>
    /\ off = NoOff
    /\ nube = NubeIdle
    /\ task = [p \in Procs |-> IdleTask]
    /\ loop = 0
    /\ nops = 0
    /\ restarts = 0

Requests == (SUBSET Tickets) \ {{}}

AllIdle == \A p \in Procs : task[p].pc = "idle"

\* an update arrives and the dispatcher (concurrent_updates) makes a task,
\* which takes the event loop for its first piece; tasks have no identity of
\* their own, the lowest free slot names the new one
Dispatch(p, budget, solo) ==
    /\ nops < budget
    /\ solo => \A q \in Procs : task[q].pc = "idle"
    /\ loop = 0
    /\ task[p].pc = "idle"
    /\ \A q \in Procs : q < p => task[q].pc # "idle"
    /\ nops' = nops + 1

NewTask(op, pc0, uid, nombre, nums) ==
    [IdleTask EXCEPT !.pc = pc0, !.op = op, !.uid = uid, !.nombre = nombre, !.nums = nums]

\* a task that finds store.reg_lock taken queues behind it and suspends
LockPcs == {"hm_check", "vc_check", "insert", "rc_enter", "sv_copy", "md_read",
            "rs_copy_reg"}

Wait(p) ==
    /\ Runnable(p)
    /\ task[p].pc \in LockPcs
    /\ ~CanEnter(p)
    /\ p \notin Range(reg_lock.waiters)
    /\ reg_lock' = [reg_lock EXCEPT !.waiters = Append(@, p)]
    /\ loop' = 0
    /\ UNCHANGED <<users_df, reg_df, lotes_df, lotes_csv, aw, al, users_lock, usuarios_pendientes, kicked_users, usuarios_csv, reconciled, RANGO, nube, off, devs_df, ventas_log, devol_log,
                   registro_csv, devoluciones_csv, task, nops, restarts>>

Ready(p, pc) ==
    /\ Runnable(p)
    /\ task[p].pc = pc
    /\ p \notin Range(reg_lock.waiters)

-----------------------------------------------------------------------------
(* handle_message: a registered user asks for tickets *)

\* lines 2290-2381: a text message of a registered user: the user's name
\* and the assignments decide which of the requested numbers are allowed
HM_Begin(p, budget, solo) ==
    /\ Dispatch(p, budget, solo)
    /\ \E uid \in UserIds, numeros \in Requests :
        /\ Registered(uid)
        /\ LET mi_nombre == NameOfUid(uid)
               dfl == lotes_df
               tiene_lote == LoteOf(dfl, mi_nombre) # {}
               mios == {n \in numeros :
                           HasOwner(dfl, n) /\ canon(OwnerOf(dfl, n)) = canon(mi_nombre)}
               bloqueados_otro == {n \in numeros :
                           HasOwner(dfl, n) /\ canon(OwnerOf(dfl, n)) # canon(mi_nombre)}
               libres == {n \in numeros : ~HasOwner(dfl, n)}
               fuera_de_mi_lote == IF tiene_lote THEN libres ELSE {}
               permitidos == mios \cup (IF tiene_lote THEN {} ELSE libres)
               replied == bloqueados_otro # {} \/ fuera_de_mi_lote # {}
           IN  IF permitidos = {}
               THEN Finish(p)
               ELSE /\ task' = [task EXCEPT ![p] =
                                    NewTask("hm", "hm_check", uid, mi_nombre, permitidos)]
                    /\ loop' = IF replied THEN 0 ELSE p
    /\ UNCHANGED <<users_df, reg_df, lotes_df, lotes_csv, aw, al, users_lock, usuarios_pendientes, kicked_users, usuarios_csv, reconciled, RANGO, nube, off, devs_df, reg_lock, ventas_log,
                   devol_log, registro_csv, devoluciones_csv, restarts>>

\* what handle_message sends: the allowed numbers nobody holds a sale for
AEnviar(permitidos, df, uid) ==
    LET enviados_usuario == {df[i].imagen : i \in {j \in DOMAIN df : df[j].usuario_id = uid}}
        vendidos_global == SoldTickets(df)
    IN  {n \in permitidos : n \notin enviados_usuario /\ n \notin vendidos_global}

\* lines 2383-2392: the sold check under reg_lock, then the "Enviando" reply
HM_Check(p) ==
    /\ Ready(p, "hm_check")
    /\ CanEnter(p)
    /\ reg_lock' = AfterBlock(p)
    /\ LET a_enviar == AEnviar(task[p].nums, reg_df, task[p].uid)
       IN  IF a_enviar = {}
           THEN Finish(p)
           ELSE /\ task' = [task EXCEPT ![p].pc = "hm_log",
                                        ![p].todo = SeqOfSet(a_enviar),
                                        ![p].rows = SeqOfSet(a_enviar)]
                /\ loop' = 0
    /\ UNCHANGED <<users_df, reg_df, lotes_df, lotes_csv, aw, al, users_lock, usuarios_pendientes, kicked_users, usuarios_csv, reconciled, RANGO, nube, off, devs_df, ventas_log, devol_log,
                   registro_csv, devoluciones_csv, nops, restarts>>

\* lines 2409-2413: one append_log_line of the loop over ok_nums; after the
\* last one the task awaits send_media_group_retry
HM_Log(p) ==
    /\ Ready(p, "hm_log")
    /\ task[p].todo # <<>>
    /\ ventas_log' = append_log_line(ventas_log,
                        VentaLine(task[p].uid, task[p].nombre, Head(task[p].todo), Now))
    /\ task' = [task EXCEPT ![p].todo = Tail(@),
                            ![p].pc = IF Tail(task[p].todo) = <<>> THEN "hm_send" ELSE @]
    /\ loop' = IF Tail(task[p].todo) = <<>> THEN 0 ELSE p
    /\ UNCHANGED <<users_df, reg_df, lotes_df, lotes_csv, aw, al, users_lock, usuarios_pendientes, kicked_users, usuarios_csv, reconciled, RANGO, nube, off, devs_df, reg_lock, devol_log,
                   registro_csv, devoluciones_csv, nops, restarts>>

\* lines 2411-2417: the media group was sent
HM_Sent(p) ==
    /\ Ready(p, "hm_send")
    /\ task' = [task EXCEPT ![p].pc = "insert"]
    /\ loop' = p
    /\ UNCHANGED <<users_df, reg_df, lotes_df, lotes_csv, aw, al, users_lock, usuarios_pendientes, kicked_users, usuarios_csv, reconciled, RANGO, nube, off, devs_df, reg_lock, ventas_log,
                   devol_log, registro_csv, devoluciones_csv, nops, restarts>>

\* pd.concat([store.reg_df, nuevos]) for the numbers in ok
NuevosRows(uid, nombre, ok) == [i \in DOMAIN ok |-> RegRow(uid, nombre, ok[i])]

\* lines 2420-2422 and 2218-2220: the rows enter store.reg_df under reg_lock
InsertSales(p) ==
    /\ Ready(p, "insert")
    /\ CanEnter(p)
    /\ reg_lock' = AfterBlock(p)
    /\ reg_df' = reg_df \o NuevosRows(task[p].uid, task[p].nombre, task[p].rows)
    /\ task' = [task EXCEPT ![p].pc = "sv_copy"]
    /\ loop' = p
    /\ UNCHANGED <<users_df, lotes_df, lotes_csv, aw, al, users_lock, usuarios_pendientes, kicked_users, usuarios_csv, reconciled, RANGO, nube, off, devs_df, ventas_log, devol_log,
                   registro_csv, devoluciones_csv, nops, restarts>>

-----------------------------------------------------------------------------
(* Store.save_reg and Store.save_devs *)

\* a save_reg whose `await asyncio.to_thread(...)` is inside the
\* `async with` block: the lock stays held while the file is written
SaveReg_CopyHolding(p) ==
    /\ Ready(p, "sv_copy")
    /\ CanEnter(p)
    /\ reg_lock' = [reg_lock EXCEPT !.holder = p]
    /\ task' = [task EXCEPT ![p].pc = "sv_write", ![p].df = reg_df]
    /\ loop' = 0
    /\ UNCHANGED <<users_df, reg_df, lotes_df, lotes_csv, aw, al, users_lock, usuarios_pendientes, kicked_users, usuarios_csv, reconciled, RANGO, nube, off, devs_df, ventas_log, devol_log,
                   registro_csv, devoluciones_csv, nops, restarts>>

\* lines 1629-1632: copy under the lock, then hand the copy to a thread
SaveReg_Copy(p) ==
    /\ Ready(p, "sv_copy")
    /\ CanEnter(p)
    /\ reg_lock' = AfterBlock(p)
    /\ task' = [task EXCEPT ![p].pc = "sv_write", ![p].df = reg_df]
    /\ loop' = 0
    /\ UNCHANGED <<users_df, reg_df, lotes_df, lotes_csv, aw, al, users_lock, usuarios_pendientes, kicked_users, usuarios_csv, reconciled, RANGO, nube, off, devs_df, ventas_log, devol_log,
                   registro_csv, devoluciones_csv, nops, restarts>>

\* atomic_write_csv replaced registro.csv; remover_carton goes on to
\* save_devs (lines 1639-1642), the sale handlers are done
SaveReg_Written(p) ==
    /\ Ready(p, "sv_write")
    /\ registro_csv' = task[p].df
    /\ IF task[p].op = "rc"
       THEN /\ task' = [task EXCEPT ![p].pc = "sd_write", ![p].df = devs_df]
            /\ loop' = 0
       ELSE Finish(p)
    /\ UNCHANGED <<users_df, reg_df, lotes_df, lotes_csv, aw, al, users_lock, usuarios_pendientes, kicked_users, usuarios_csv, reconciled, RANGO, nube, off, devs_df, reg_lock, ventas_log,
                   devol_log, devoluciones_csv, nops, restarts>>

SaveDevs_Written(p) ==
    /\ Ready(p, "sd_write")
    /\ devoluciones_csv' = task[p].df
    /\ Finish(p)
    /\ UNCHANGED <<users_df, reg_df, lotes_df, lotes_csv, aw, al, users_lock, usuarios_pendientes, kicked_users, usuarios_csv, reconciled, RANGO, nube, off, devs_df, reg_lock, ventas_log,
                   devol_log, registro_csv, nops, restarts>>

-----------------------------------------------------------------------------
(* vendido_cmd: the administrator records sales for a user *)

TargetInputs == {"ana", "LUIS"}

\* the first row of users_df whose name matches case-insensitively
FindUser(target_input) ==
    CHOOSE i \in DOMAIN users_df :
        /\ canon(users_df[i].nombre_usuario) = canon(target_input)
        /\ \A j \in DOMAIN users_df :
               canon(users_df[j].nombre_usuario) = canon(target_input) => i <= j

\* lines 2162-2188: /vendido of the administrator: look the user up, read
\* the assignments
VC_Begin(p, budget, solo) ==
    /\ Dispatch(p, budget, solo)
    /\ \E target_input \in TargetInputs, numeros \in Requests :
        IF \E i \in DOMAIN users_df :
               canon(users_df[i].nombre_usuario) = canon(target_input)
        THEN LET row == users_df[FindUser(target_input)]
             IN  /\ task' = [task EXCEPT ![p] =
                                [NewTask("vc", "vc_check", row.usuario_id,
                                         row.nombre_usuario, numeros)
                                     EXCEPT !.dfl = lotes_df]]
                 /\ loop' = p
        ELSE Finish(p)
    /\ UNCHANGED <<users_df, reg_df, lotes_df, lotes_csv, aw, al, users_lock, usuarios_pendientes, kicked_users, usuarios_csv, reconciled, RANGO, nube, off, devs_df, reg_lock, ventas_log,
                   devol_log, registro_csv, devoluciones_csv, restarts>>

\* lines 2199-2211: the numbers vendido_cmd lets through
Permitidos(numeros, sold_global, dfl, target_name) ==
    LET tiene_lote == LoteOf(dfl, target_name) # {}
    IN  {n \in numeros :
            /\ n \notin sold_global
            /\ ~(HasOwner(dfl, n) /\ canon(OwnerOf(dfl, n)) # canon(target_name))
            /\ ~(tiene_lote /\ ~HasOwner(dfl, n))}

\* lines 2192-2202: with a range defined, the numbers outside it go to
\* fuera_rango
EnRango(rango, numeros) ==
    IF rango = <<>> THEN numeros
    ELSE {n \in numeros : rango[1] <= n /\ n <= rango[2]}

\* lines 2189-2211: the sold check under reg_lock and the classification
VC_Check(p) ==
    /\ Ready(p, "vc_check")
    /\ CanEnter(p)
    /\ reg_lock' = AfterBlock(p)
    /\ LET permitidos == Permitidos(EnRango(RANGO, task[p].nums), SoldTickets(reg_df),
                                    task[p].dfl, task[p].nombre)
       IN  IF permitidos = {}
           THEN Finish(p)
           ELSE /\ task' = [task EXCEPT ![p].pc = "vc_log",
                                        ![p].todo = SeqOfSet(permitidos),
                                        ![p].rows = SeqOfSet(permitidos)]
                /\ loop' = p
    /\ UNCHANGED <<users_df, reg_df, lotes_df, lotes_csv, aw, al, users_lock, usuarios_pendientes, kicked_users, usuarios_csv, reconciled, RANGO, nube, off, devs_df, ventas_log, devol_log,
                   registro_csv, devoluciones_csv, nops, restarts>>

\* lines 2216-2217: one append_log_line of the loop over permitidos
VC_Log(p) ==
    /\ Ready(p, "vc_log")
    /\ task[p].todo # <<>>
    /\ ventas_log' = append_log_line(ventas_log,
                        VentaLine(task[p].uid, task[p].nombre, Head(task[p].todo), Now))
    /\ task' = [task EXCEPT ![p].todo = Tail(@),
                            ![p].pc = IF Tail(task[p].todo) = <<>> THEN "insert" ELSE @]
    /\ loop' = p
    /\ UNCHANGED <<users_df, reg_df, lotes_df, lotes_csv, aw, al, users_lock, usuarios_pendientes, kicked_users, usuarios_csv, reconciled, RANGO, nube, off, devs_df, reg_lock, devol_log,
                   registro_csv, devoluciones_csv, nops, restarts>>

-----------------------------------------------------------------------------
(* remover_carton: a user returns tickets *)

\* lines 2126-2132: /r of a user, up to the `async with store.reg_lock`
RC_Begin(p, budget, solo) ==
    /\ Dispatch(p, budget, solo)
    /\ \E uid \in UserIds, numeros \in Requests :
           task' = [task EXCEPT ![p] = NewTask("rc", "rc_enter", uid, "", numeros)]
    /\ loop' = p
    /\ UNCHANGED <<users_df, reg_df, lotes_df, lotes_csv, aw, al, users_lock, usuarios_pendientes, kicked_users, usuarios_csv, reconciled, RANGO, nube, off, devs_df, reg_lock, ventas_log,
                   devol_log, registro_csv, devoluciones_csv, restarts>>

\* a mask without the usuario_id test
CartonesDeTodos(df, uid, numeros) ==
    SelectSeq(df, LAMBDA r : r.imagen \in numeros)

\* df[mask]: the caller's sale rows for the requested numbers
CartonesUsuario(df, uid, numeros) ==
    SelectSeq(df, LAMBDA r : r.usuario_id = uid /\ r.imagen \in numeros)

\* lines 2134-2144: take reg_lock and look for the caller's rows; the lock
\* stays held, also while the rejection is being sent
RC_Enter(p) ==
    /\ Ready(p, "rc_enter")
    /\ CanEnter(p)
    /\ reg_lock' = [reg_lock EXCEPT !.holder = p]
    /\ LET cartones_usuario == CartonesUsuario(reg_df, task[p].uid, task[p].nums)
       IN  IF cartones_usuario = <<>>
           THEN /\ task' = [task EXCEPT ![p].pc = "rc_reject"]
                /\ loop' = 0
           ELSE /\ task' = [task EXCEPT ![p].pc = "rc_log",
                                        ![p].todo = cartones_usuario,
                                        ![p].rows = cartones_usuario]
                /\ loop' = p
    /\ UNCHANGED <<users_df, reg_df, lotes_df, lotes_csv, aw, al, users_lock, usuarios_pendientes, kicked_users, usuarios_csv, reconciled, RANGO, nube, off, devs_df, ventas_log, devol_log,
                   registro_csv, devoluciones_csv, nops, restarts>>

\* line 2139-2140: the rejection was sent, the lock is released
RC_Rejected(p) ==
    /\ Ready(p, "rc_reject")
    /\ reg_lock' = Released(reg_lock)
    /\ Finish(p)
    /\ UNCHANGED <<users_df, reg_df, lotes_df, lotes_csv, aw, al, users_lock, usuarios_pendientes, kicked_users, usuarios_csv, reconciled, RANGO, nube, off, devs_df, ventas_log, devol_log,
                   registro_csv, devoluciones_csv, nops, restarts>>

\* a return that takes each row out of reg_df as it journals it
RC_LogEager(p) ==
    /\ Ready(p, "rc_log")
    /\ task[p].todo # <<>>
    /\ LET fila == Head(task[p].todo)
       IN  /\ devol_log' = append_log_line(devol_log,
                               DevolLine(fila.usuario_id, fila.nombre_usuario, fila.imagen,
                                         Now, FullName(task[p].uid)))
           /\ reg_df' = SelectSeq(reg_df, LAMBDA r : r # fila)
    /\ task' = [task EXCEPT ![p].todo = Tail(@),
                            ![p].pc = IF Tail(task[p].todo) = <<>> THEN "rc_apply" ELSE @]
    /\ loop' = p
    /\ UNCHANGED <<users_df, lotes_df, lotes_csv, aw, al, users_lock, usuarios_pendientes, kicked_users, usuarios_csv, reconciled, RANGO, nube, off, devs_df, reg_lock, ventas_log,
                   registro_csv, devoluciones_csv, nops, restarts>>

\* lines 2145-2146: one append_log_line of the loop over the caller's rows
RC_Log(p) ==
    /\ Ready(p, "rc_log")
    /\ task[p].todo # <<>>
    /\ LET fila == Head(task[p].todo)
       IN  devol_log' = append_log_line(devol_log,
                           DevolLine(fila.usuario_id, fila.nombre_usuario, fila.imagen,
                                     Now, FullName(task[p].uid)))
    /\ task' = [task EXCEPT ![p].todo = Tail(@),
                            ![p].pc = IF Tail(task[p].todo) = <<>> THEN "rc_apply" ELSE @]
    /\ loop' = p
    /\ UNCHANGED <<users_df, reg_df, lotes_df, lotes_csv, aw, al, users_lock, usuarios_pendientes, kicked_users, usuarios_csv, reconciled, RANGO, nube, off, devs_df, reg_lock, ventas_log,
                   registro_csv, devoluciones_csv, nops, restarts>>

\* a removal with the mask the wrong way round: df[mask]
WithoutCartonesKept(df, uid, numeros) ==
    SelectSeq(df, LAMBDA r : r.usuario_id = uid /\ r.imagen \in numeros)

\* df[~mask]
WithoutCartones(df, uid, numeros) ==
    SelectSeq(df, LAMBDA r : ~(r.usuario_id = uid /\ r.imagen \in numeros))

\* a return that makes a Return row for the first removed row only
DevRowsReturnedFirst(cartones_usuario, user_name, ts) ==
    [i \in {j \in DOMAIN cartones_usuario : j = 1} |->
        DevRow(cartones_usuario[i].usuario_id, cartones_usuario[i].nombre_usuario,
               cartones_usuario[i].imagen, user_name, ts)]

DevRowsReturned(cartones_usuario, user_name, ts) ==
    [i \in DOMAIN cartones_usuario |->
        DevRow(cartones_usuario[i].usuario_id, cartones_usuario[i].nombre_usuario,
               cartones_usuario[i].imagen, user_name, ts)]

\* a return that makes the Returns table out of its own rows alone
RC_ApplyReplacing(p) ==
    /\ Ready(p, "rc_apply")
    /\ reg_df' = WithoutCartones(reg_df, task[p].uid, task[p].nums)
    /\ devs_df' = DevRowsReturned(task[p].rows, FullName(task[p].uid), Now)
    /\ reg_lock' = Released(reg_lock)
    /\ task' = [task EXCEPT ![p].pc = "sv_copy"]
    /\ loop' = p
    /\ UNCHANGED <<users_df, lotes_df, lotes_csv, aw, al, users_lock, usuarios_pendientes, kicked_users, usuarios_csv, reconciled, RANGO, nube, off, ventas_log, devol_log, registro_csv,
                   devoluciones_csv, nops, restarts>>

\* lines 2147-2155: the rows leave reg_df and enter devs_df
RC_Apply(p) ==
    /\ Ready(p, "rc_apply")
    /\ reg_df' = WithoutCartones(reg_df, task[p].uid, task[p].nums)
    /\ devs_df' = devs_df \o DevRowsReturned(task[p].rows, FullName(task[p].uid), Now)
    /\ reg_lock' = Released(reg_lock)
    /\ task' = [task EXCEPT ![p].pc = "sv_copy"]
    /\ loop' = p
    /\ UNCHANGED <<users_df, lotes_df, lotes_csv, aw, al, users_lock, usuarios_pendientes, kicked_users, usuarios_csv, reconciled, RANGO, nube, off, ventas_log, devol_log, registro_csv,
                   devoluciones_csv, nops, restarts>>

-----------------------------------------------------------------------------
(* comando_lote and quitar_lote: the administrator assigns tickets to a    *)
(* user name and takes assignments back.  store.lotes_lock is never held   *)
(* across an await, so each `async with store.lotes_lock` block runs       *)
(* without suspending.                                                     *)

\* the names the administrator types
LoteInputs == {"ana", "LUIS", "luis"}

LoteRow(nombre, n) == [nombre_usuario |-> nombre, carton |-> n]

\* an assignment that takes every requested number as new
NuevosUnchecked(dfl, numeros) == numeros

\* lines 2026-2029: the requested numbers nobody owns
Nuevos(dfl, numeros) == {n \in numeros : ~HasOwner(dfl, n)}

\* lines 2030-2032
YaMios(dfl, target_canon, numeros) ==
    {n \in numeros : HasOwner(dfl, n) /\ canon(OwnerOf(dfl, n)) = target_canon}

\* a conflict list that is always empty
ConflictosUnseen(dfl, target_canon, numeros) == <<>>

\* lines 2033-2034: (n, owner) for the numbers of another owner, in order
Conflictos(dfl, target_canon, numeros) ==
    LET ns == SeqOfSet({n \in numeros :
                  HasOwner(dfl, n) /\ canon(OwnerOf(dfl, n)) # target_canon})
    IN  [i \in DOMAIN ns |-> <<ns[i], OwnerOf(dfl, ns[i])>>]

\* lines 2035-2039
AssignLote(dfl, raw_name, numeros) ==
    LET nuevos == SeqOfSet(Nuevos(dfl, numeros))
    IN  IF nuevos # <<>>
        THEN dfl \o [i \in DOMAIN nuevos |-> LoteRow(raw_name, nuevos[i])]
        ELSE dfl

\* lines 2006-2040: /lote up to the thread that save_lotes starts; save_lotes
\* has copied the table (lines 1635-1636)
LT_Assign(p, budget, solo) ==
    /\ Dispatch(p, budget, solo)
    /\ \E raw_name \in LoteInputs, numeros \in Requests :
           LET new_df == AssignLote(lotes_df, raw_name, numeros)
           IN  /\ lotes_df' = new_df
               /\ task' = [task EXCEPT ![p] =
                      [NewTask("lt", "sl_write", 0, raw_name, numeros)
                          EXCEPT !.df = new_df,
                                 !.rows = SeqOfSet(Nuevos(lotes_df, numeros)),
                                 !.conflictos = Conflictos(lotes_df, canon(raw_name), numeros)]]
    /\ loop' = 0
    /\ UNCHANGED <<users_df, reg_df, devs_df, reg_lock, ventas_log, devol_log,
                   registro_csv, devoluciones_csv, lotes_csv, aw, al, users_lock, usuarios_pendientes, kicked_users, usuarios_csv, reconciled, RANGO, nube, off, restarts>>

\* dfl[keep_mask], lines 1997-1999
QuitarLote(dfl, target_canon, nums) ==
    SelectSeq(dfl, LAMBDA r : ~(canon(r.nombre_usuario) = target_canon /\ r.carton \in nums))

\* a /quitar_lote that also takes the sales of the numbers out of reg_df
QL_RemoveWithSales(p, budget, solo) ==
    /\ Dispatch(p, budget, solo)
    /\ \E raw_name \in LoteInputs, nums \in Requests :
           LET new_df == QuitarLote(lotes_df, canon(raw_name), nums)
           IN  /\ lotes_df' = new_df
               /\ reg_df' = SelectSeq(reg_df, LAMBDA r : r.imagen \notin nums)
               /\ task' = [task EXCEPT ![p] =
                      [NewTask("ql", "sl_write", 0, raw_name, nums) EXCEPT !.df = new_df]]
    /\ loop' = 0
    /\ UNCHANGED <<users_df, devs_df, reg_lock, ventas_log, devol_log,
                   registro_csv, devoluciones_csv, lotes_csv, aw, al, users_lock, usuarios_pendientes, kicked_users, usuarios_csv, reconciled, RANGO, nube, off, restarts>>

\* lines 1984-2000: /quitar_lote up to the thread that save_lotes starts
QL_Remove(p, budget, solo) ==
    /\ Dispatch(p, budget, solo)
    /\ \E raw_name \in LoteInputs, nums \in Requests :
           LET new_df == QuitarLote(lotes_df, canon(raw_name), nums)
           IN  /\ lotes_df' = new_df
               /\ task' = [task EXCEPT ![p] =
                      [NewTask("ql", "sl_write", 0, raw_name, nums) EXCEPT !.df = new_df]]
    /\ loop' = 0
    /\ UNCHANGED <<users_df, reg_df, devs_df, reg_lock, ventas_log, devol_log,
                   registro_csv, devoluciones_csv, lotes_csv, aw, al, users_lock, usuarios_pendientes, kicked_users, usuarios_csv, reconciled, RANGO, nube, off, restarts>>

\* Store.save_lotes, lines 1634-1637: atomic_write_csv replaced lotes.csv;
\* the handler goes on to its reply
SaveLotes_Written(p) ==
    /\ Ready(p, "sl_write")
    /\ lotes_csv' = task[p].df
    /\ task' = [task EXCEPT ![p].pc = "sl_reply"]
    /\ loop' = 0
    /\ UNCHANGED <<users_df, reg_df, lotes_df, devs_df, reg_lock, ventas_log, devol_log,
                   registro_csv, devoluciones_csv, aw, al, users_lock, usuarios_pendientes, kicked_users, usuarios_csv, reconciled, RANGO, nube, off, nops, restarts>>

\* lines 2042-2063 and 2001-2004: the reply with the lists was sent
LoteReplied(p) ==
    /\ Ready(p, "sl_reply")
    /\ Finish(p)
    /\ UNCHANGED <<users_df, reg_df, lotes_df, devs_df, reg_lock, ventas_log, devol_log,
                   registro_csv, devoluciones_csv, lotes_csv, aw, al, users_lock, usuarios_pendientes, kicked_users, usuarios_csv, reconciled, RANGO, nube, off, nops, restarts>>

\* atomic_write_csv raises in save_lotes: the handler ends before its reply
LotesWriteFail(p) ==
    /\ Ready(p, "sl_write")
    /\ Finish(p)
    /\ UNCHANGED <<users_df, reg_df, lotes_df, devs_df, reg_lock, ventas_log, devol_log,
                   registro_csv, devoluciones_csv, lotes_csv, aw, al, users_lock, usuarios_pendientes, kicked_users, usuarios_csv, reconciled, RANGO, nube, off, nops, restarts>>

-----------------------------------------------------------------------------
(* Failures of the collaborators *)

\* append_log_line raises after its retries: the handler ends with the
\* exception, an `async with` block it is in releases the lock
AppendFail(p) ==
    /\ Runnable(p)
    /\ task[p].pc \in {"hm_log", "vc_log", "rc_log"}
    /\ reg_lock' = IF reg_lock.holder = p THEN Released(reg_lock) ELSE reg_lock
    /\ Finish(p)
    /\ UNCHANGED <<users_df, reg_df, lotes_df, lotes_csv, aw, al, users_lock, usuarios_pendientes, kicked_users, usuarios_csv, reconciled, RANGO, nube, off, devs_df, ventas_log, devol_log,
                   registro_csv, devoluciones_csv, nops, restarts>>

\* send_media_group_retry raises on its fourth attempt (lines 1795-1801)
SendFail(p) ==
    /\ Ready(p, "hm_send")
    /\ Finish(p)
    /\ UNCHANGED <<users_df, reg_df, lotes_df, lotes_csv, aw, al, users_lock, usuarios_pendientes, kicked_users, usuarios_csv, reconciled, RANGO, nube, off, devs_df, reg_lock, ventas_log,
                   devol_log, registro_csv, devoluciones_csv, nops, restarts>>

\* atomic_write_csv raises PermissionError after its retries: the file keeps
\* its content and the handler ends with the exception
WriteFail(p) ==
    /\ Runnable(p)
    /\ task[p].pc \in {"sv_write", "sd_write"}
    /\ Finish(p)
    /\ UNCHANGED <<users_df, reg_df, lotes_df, lotes_csv, aw, al, users_lock, usuarios_pendientes, kicked_users, usuarios_csv, reconciled, RANGO, nube, off, devs_df, reg_lock, ventas_log,
                   devol_log, registro_csv, devoluciones_csv, nops, restarts>>

-----------------------------------------------------------------------------
(* Process start: the running process ends (all tasks and the in-memory    *)
(* tables are lost), then a new one runs load_all_sync and                 *)
(* reconcile_from_logs_sync before any handler.                            *)

\* load_all_sync: pd.read_csv of the snapshot
load_all_sync(csv) == csv

Startup(w1, w2, w3) ==
    /\ restarts' = restarts + 1
    /\ LET r == Reconciled(load_all_sync(registro_csv), load_all_sync(devoluciones_csv),
                           ventas_log, devol_log, registro_csv, devoluciones_csv,
                           w1, w2, w3)
       IN  /\ reg_df' = r.reg
           /\ devs_df' = r.devs
           /\ registro_csv' = r.rcsv
           /\ devoluciones_csv' = r.dcsv
    /\ task' = [p \in Procs |-> IdleTask]
    /\ reg_lock' = FreeLock
    /\ loop' = 0
    /\ lotes_df' = load_all_sync(lotes_csv)
    /\ users_df' = load_all_sync(usuarios_csv)
    /\ users_lock' = FreeLock
    /\ usuarios_pendientes' = {}
    /\ kicked_users' = {}
    /\ reconciled' = 1
    /\ off' = NoOff
    /\ UNCHANGED <<lotes_csv, aw, al, usuarios_csv, RANGO, nube, ventas_log, devol_log, nops>>

Restart == restarts < MaxRestarts /\ Startup(TRUE, TRUE, TRUE)

\* some atomic_write_csv of the reconciliation fails; it only logs a warning
RestartWriteFail ==
    /\ restarts < MaxRestarts
    /\ \E w1, w2, w3 \in BOOLEAN : ~(w1 /\ w2 /\ w3) /\ Startup(w1, w2, w3)

-----------------------------------------------------------------------------
(* store.users_lock, the registration flow of handle_message, and kick_cmd *)

UCanEnter(p) == users_lock.holder \in {0, p}

UAfterBlock(p) == IF users_lock.holder = p THEN Released(users_lock) ELSE users_lock

UReady(p, pc) ==
    /\ Runnable(p)
    /\ task[p].pc = pc
    /\ p \notin Range(users_lock.waiters)

\* the positions in front of an `async with store.users_lock`
UserLockPcs == {"rg_copy", "rg_insert", "su_copy", "kk_enter", "md_enter",
                "rs_copy_users", "oc_ids", "rs_enter", "rl_enter"}

\* a task that finds store.users_lock taken queues behind it and suspends
UWait(p) ==
    /\ UReady(p, task[p].pc)
    /\ task[p].pc \in UserLockPcs
    /\ ~UCanEnter(p)
    /\ users_lock' = [users_lock EXCEPT !.waiters = Append(@, p)]
    /\ loop' = 0
    /\ UNCHANGED <<users_df, reg_df, lotes_df, devs_df, reg_lock, ventas_log, devol_log,
                   registro_csv, devoluciones_csv, lotes_csv, aw, al, usuarios_pendientes,
                   kicked_users, usuarios_csv, reconciled, RANGO, nube, off, task, nops, restarts>>

\* the texts users send while they register
RegInputs == {"ana", "ANA", ""}

UserRow(uid, nombre) ==
    [usuario_id |-> uid, nombre_usuario |-> nombre, nombre_completo |-> FullName(uid)]

\* set(dfu["usuario_id"].values), line 2301
Registrados(dfu) == {dfu[i].usuario_id : i \in DOMAIN dfu}

\* set(dfu["nombre_usuario"].astype(str).str.casefold()), line 2312
NombresNorm(dfu) == {canon(dfu[i].nombre_usuario) : i \in DOMAIN dfu}

\* lines 2290-2298: a text message arrives; a kicked user only gets the
\* notice
RG_Begin(p, budget, solo) ==
    /\ Dispatch(p, budget, solo)
    /\ \E uid \in UserIds, mensaje \in RegInputs :
           IF uid \in kicked_users
           THEN /\ task' = [task EXCEPT ![p] = NewTask("rg", "u_reply", uid, mensaje, {})]
                /\ loop' = 0
           ELSE /\ task' = [task EXCEPT ![p] = NewTask("rg", "rg_copy", uid, mensaje, {})]
                /\ loop' = p
    /\ UNCHANGED <<users_df, reg_df, lotes_df, devs_df, reg_lock, ventas_log, devol_log,
                   registro_csv, devoluciones_csv, lotes_csv, aw, al, users_lock,
                   usuarios_pendientes, kicked_users, usuarios_csv, reconciled, RANGO, nube, off, restarts>>

\* lines 2299-2314: the copy of users_df under users_lock and, after the
\* block, the checks made on that copy.  A registered user's text holds no
\* numbers and is answered (lines 2343-2346); a new user is asked for a
\* name; an empty or a taken name is refused; otherwise the handler goes on
\* to the second `async with store.users_lock`
RG_Copy(p) ==
    /\ UReady(p, "rg_copy")
    /\ UCanEnter(p)
    /\ users_lock' = UAfterBlock(p)
    /\ LET dfu == users_df
           uid == task[p].uid
       IN  IF uid \in Registrados(dfu)
           THEN /\ task' = [task EXCEPT ![p].pc = "u_reply"]
                /\ loop' = 0
                /\ UNCHANGED usuarios_pendientes
           ELSE IF uid \notin usuarios_pendientes
           THEN /\ usuarios_pendientes' = usuarios_pendientes \cup {uid}
                /\ task' = [task EXCEPT ![p].pc = "u_reply"]
                /\ loop' = 0
           ELSE IF task[p].nombre = "" \/ canon(task[p].nombre) \in NombresNorm(dfu)
           THEN /\ task' = [task EXCEPT ![p].pc = "u_reply"]
                /\ loop' = 0
                /\ UNCHANGED usuarios_pendientes
           ELSE /\ task' = [task EXCEPT ![p].pc = "rg_insert", ![p].dfu = dfu]
                /\ loop' = p
                /\ UNCHANGED usuarios_pendientes
    /\ UNCHANGED <<users_df, reg_df, lotes_df, devs_df, reg_lock, ventas_log, devol_log,
                   registro_csv, devoluciones_csv, lotes_csv, aw, al, kicked_users,
                   usuarios_csv, reconciled, RANGO, nube, off, nops, restarts>>

\* lines 2316-2317: the row is appended to store.users_df under users_lock;
\* save_users follows
RG_Insert(p) ==
    /\ UReady(p, "rg_insert")
    /\ UCanEnter(p)
    /\ users_lock' = UAfterBlock(p)
    /\ users_df' = Append(users_df, UserRow(task[p].uid, task[p].nombre))
    /\ task' = [task EXCEPT ![p].pc = "su_copy"]
    /\ loop' = p
    /\ UNCHANGED <<reg_df, lotes_df, devs_df, reg_lock, ventas_log, devol_log,
                   registro_csv, devoluciones_csv, lotes_csv, aw, al, usuarios_pendientes,
                   kicked_users, usuarios_csv, reconciled, RANGO, nube, off, nops, restarts>>

\* Store.save_users, lines 1624-1627: copy under the lock, then hand the
\* copy to a thread
SaveUsers_Copy(p) ==
    /\ UReady(p, "su_copy")
    /\ UCanEnter(p)
    /\ users_lock' = UAfterBlock(p)
    /\ task' = [task EXCEPT ![p].pc = "su_write", ![p].df = users_df]
    /\ loop' = 0
    /\ UNCHANGED <<users_df, reg_df, lotes_df, devs_df, reg_lock, ventas_log, devol_log,
                   registro_csv, devoluciones_csv, lotes_csv, aw, al, usuarios_pendientes,
                   kicked_users, usuarios_csv, reconciled, RANGO, nube, off, nops, restarts>>

\* atomic_write_csv replaced usuarios.csv; the registration forgets the
\* pending id (line 2319); the handler goes on to its reply
SaveUsers_Written(p) ==
    /\ UReady(p, "su_write")
    /\ usuarios_csv' = task[p].df
    /\ usuarios_pendientes' = IF task[p].op = "rg" THEN usuarios_pendientes \ {task[p].uid}
                              ELSE usuarios_pendientes
    /\ task' = [task EXCEPT ![p].pc = "u_reply"]
    /\ loop' = 0
    /\ UNCHANGED <<users_df, reg_df, lotes_df, devs_df, reg_lock, ventas_log, devol_log,
                   registro_csv, devoluciones_csv, lotes_csv, aw, al, users_lock,
                   kicked_users, reconciled, RANGO, nube, off, nops, restarts>>

\* the reply that ends the handler was sent (lines 2292, 2305, 2310, 2314,
\* 2330-2339, 1893)
UserReplied(p) ==
    /\ UReady(p, "u_reply")
    /\ Finish(p)
    /\ UNCHANGED <<users_df, reg_df, lotes_df, devs_df, reg_lock, ventas_log, devol_log,
                   registro_csv, devoluciones_csv, lotes_csv, aw, al, users_lock,
                   usuarios_pendientes, kicked_users, usuarios_csv, reconciled, RANGO, nube, off, nops,
                   restarts>>

\* the names the administrator gives to /kick
KickInputs == {"ana", "ANA"}

\* lines 1873-1879: /kick <nombre_usuario>
KK_Begin(p, budget, solo) ==
    /\ Dispatch(p, budget, solo)
    /\ \E raw \in KickInputs :
           task' = [task EXCEPT ![p] = NewTask("kk", "kk_enter", 0, canon(raw), {})]
    /\ loop' = p
    /\ UNCHANGED <<users_df, reg_df, lotes_df, devs_df, reg_lock, ventas_log, devol_log,
                   registro_csv, devoluciones_csv, lotes_csv, aw, al, users_lock,
                   usuarios_pendientes, kicked_users, usuarios_csv, reconciled, RANGO, nube, off, restarts>>

\* lines 1880-1890: under users_lock the rows of the name are looked up; if
\* there is none the reply is awaited inside the block, the lock stays held;
\* otherwise the ids are blocked and the rows leave users_df
KK_Enter(p) ==
    /\ UReady(p, "kk_enter")
    /\ UCanEnter(p)
    /\ LET target == task[p].nombre
           ids == {users_df[i].usuario_id :
                      i \in {j \in DOMAIN users_df : canon(users_df[j].nombre_usuario) = target}}
       IN  IF ids = {}
           THEN /\ users_lock' = [users_lock EXCEPT !.holder = p]
                /\ task' = [task EXCEPT ![p].pc = "kk_reject"]
                /\ loop' = 0
                /\ UNCHANGED <<users_df, kicked_users>>
           ELSE /\ kicked_users' = kicked_users \cup ids
                /\ users_df' = SelectSeq(users_df,
                                   LAMBDA r : canon(r.nombre_usuario) # target)
                /\ users_lock' = UAfterBlock(p)
                /\ task' = [task EXCEPT ![p].pc = "su_copy"]
                /\ loop' = p
    /\ UNCHANGED <<reg_df, lotes_df, devs_df, reg_lock, ventas_log, devol_log,
                   registro_csv, devoluciones_csv, lotes_csv, aw, al, usuarios_pendientes,
                   usuarios_csv, reconciled, RANGO, nube, off, nops, restarts>>

\* lines 1885-1886: the reply was sent, `return` leaves the block
KK_Rejected(p) ==
    /\ UReady(p, "kk_reject")
    /\ users_lock' = Released(users_lock)
    /\ Finish(p)
    /\ UNCHANGED <<users_df, reg_df, lotes_df, devs_df, reg_lock, ventas_log, devol_log,
                   registro_csv, devoluciones_csv, lotes_csv, aw, al, usuarios_pendientes,
                   kicked_users, usuarios_csv, reconciled, RANGO, nube, off, nops, restarts>>

-----------------------------------------------------------------------------
(* mostrar_disponibles: a user asks which tickets they can still buy *)

\* the senders of /disp: the users and somebody who never registered
QueryIds == UserIds \cup {3}

\* the values of RANGO: (inicio, fin) as /rango wrote it to rango.txt,
\* inicio <= fin (lines 1935-1941); <<>> is None
Rangos == {r \in Tickets \X Tickets : r[1] <= r[2]} \cup {<<>>}

\* a listing that does not look at the sales
DisponiblesUnsold(reg, lotes, nombre_usuario, inicio, fin) ==
    LET mis_asignados == {lotes[i].carton :
                             i \in {j \in DOMAIN lotes :
                                       canon(lotes[j].nombre_usuario) = canon(nombre_usuario)}}
        asignados_por_num == {lotes[i].carton : i \in DOMAIN lotes}
    IN  IF mis_asignados # {}
        THEN {n \in mis_asignados : inicio <= n /\ n <= fin}
        ELSE {n \in inicio..fin : n \notin asignados_por_num}

\* lines 2102-2119: vendidos, mis_asignados, asignados_por_num, disponibles
Disponibles(reg, lotes, nombre_usuario, inicio, fin) ==
    LET vendidos == {reg[i].imagen : i \in DOMAIN reg}
        mis_asignados == {lotes[i].carton :
                             i \in {j \in DOMAIN lotes :
                                       canon(lotes[j].nombre_usuario) = canon(nombre_usuario)}}
        asignados_por_num == {lotes[i].carton : i \in DOMAIN lotes}
    IN  IF mis_asignados # {}
        THEN {n \in mis_asignados : inicio <= n /\ n <= fin /\ n \notin vendidos}
        ELSE {n \in inicio..fin : n \notin vendidos /\ n \notin asignados_por_num}

\* lines 2084-2094: without a range the handler replies and ends
MD_Begin(p, budget, solo) ==
    /\ Dispatch(p, budget, solo)
    /\ \E uid \in QueryIds :
           LET rango == RANGO IN
           IF rango = <<>>
           THEN /\ task' = [task EXCEPT ![p] = NewTask("md", "md_reply", uid, "", {})]
                /\ loop' = 0
           ELSE /\ task' = [task EXCEPT ![p] =
                       [NewTask("md", "md_enter", uid, "", {}) EXCEPT !.todo = rango]]
                /\ loop' = p
    /\ UNCHANGED <<users_df, reg_df, lotes_df, devs_df, reg_lock, ventas_log, devol_log,
                   registro_csv, devoluciones_csv, lotes_csv, aw, al, users_lock,
                   usuarios_pendientes, kicked_users, usuarios_csv, reconciled, RANGO, nube, off, restarts>>

\* lines 2096-2100: under users_lock; somebody not registered is told so
\* with the lock held, a user's name is looked up
MD_Enter(p) ==
    /\ UReady(p, "md_enter")
    /\ UCanEnter(p)
    /\ IF ~Registered(task[p].uid)
       THEN /\ users_lock' = [users_lock EXCEPT !.holder = p]
            /\ task' = [task EXCEPT ![p].pc = "md_reject"]
            /\ loop' = 0
       ELSE /\ users_lock' = UAfterBlock(p)
            /\ task' = [task EXCEPT ![p].pc = "md_read",
                                    ![p].nombre = NameOfUid(task[p].uid)]
            /\ loop' = p
    /\ UNCHANGED <<users_df, reg_df, lotes_df, devs_df, reg_lock, ventas_log, devol_log,
                   registro_csv, devoluciones_csv, lotes_csv, aw, al,
                   usuarios_pendientes, kicked_users, usuarios_csv, reconciled, RANGO, nube, off, nops,
                   restarts>>

\* lines 2098-2099: the reply was sent, `return` leaves the block
MD_Rejected(p) ==
    /\ UReady(p, "md_reject")
    /\ users_lock' = Released(users_lock)
    /\ Finish(p)
    /\ UNCHANGED <<users_df, reg_df, lotes_df, devs_df, reg_lock, ventas_log, devol_log,
                   registro_csv, devoluciones_csv, lotes_csv, aw, al,
                   usuarios_pendientes, kicked_users, usuarios_csv, reconciled, RANGO, nube, off, nops,
                   restarts>>

\* lines 2102-2119: the sold numbers are read under reg_lock, the
\* assignments under lotes_lock right after, and the list is made
MD_Read(p) ==
    /\ Ready(p, "md_read")
    /\ CanEnter(p)
    /\ reg_lock' = AfterBlock(p)
    /\ task' = [task EXCEPT
           ![p].pc = "md_reply",
           ![p].rows = SeqOfSet(Disponibles(reg_df, lotes_df, task[p].nombre,
                                            task[p].todo[1], task[p].todo[2]))]
    /\ loop' = 0
    /\ UNCHANGED <<users_df, reg_df, lotes_df, devs_df, ventas_log, devol_log,
                   registro_csv, devoluciones_csv, lotes_csv, aw, al, users_lock,
                   usuarios_pendientes, kicked_users, usuarios_csv, reconciled, RANGO, nube, off, nops,
                   restarts>>

\* lines 2090, 2121-2124: the reply was sent
MD_Replied(p) ==
    /\ Ready(p, "md_reply")
    /\ Finish(p)
    /\ UNCHANGED <<users_df, reg_df, lotes_df, devs_df, reg_lock, ventas_log, devol_log,
                   registro_csv, devoluciones_csv, lotes_csv, aw, al, users_lock,
                   usuarios_pendientes, kicked_users, usuarios_csv, reconciled, RANGO, nube, off, nops,
                   restarts>>

-----------------------------------------------------------------------------
(* reload_cmd: the administrator has the tables read again from the files *)

\* lines 2425-2444: pd.read_csv of the four files into locals; nothing
\* awaits before the `async with` of line 2446
RL_Begin(p, budget, solo) ==
    /\ Dispatch(p, budget, solo)
    /\ task' = [task EXCEPT ![p] =
           [NewTask("rl", "rl_enter", 0, "", {})
               EXCEPT !.dfu = usuarios_csv, !.df = registro_csv,
                      !.dfl = lotes_csv, !.devs = devoluciones_csv]]
    /\ loop' = p
    /\ UNCHANGED <<users_df, reg_df, lotes_df, devs_df, reg_lock, ventas_log, devol_log,
                   registro_csv, devoluciones_csv, lotes_csv, aw, al, users_lock, usuarios_pendientes, kicked_users, usuarios_csv, reconciled, RANGO, nube, off, restarts>>

\* line 2446: users_lock is taken first; reg_lock is held by another task,
\* reload_cmd queues behind it with users_lock in its hand
RL_Wait(p) ==
    /\ Ready(p, "rl_enter")
    /\ users_lock.holder \in {0, p}
    /\ ~CanEnter(p)
    /\ users_lock' = [users_lock EXCEPT !.holder = p]
    /\ reg_lock' = [reg_lock EXCEPT !.waiters = Append(@, p)]
    /\ loop' = 0
    /\ UNCHANGED <<users_df, reg_df, lotes_df, lotes_csv, aw, al, usuarios_pendientes, kicked_users, usuarios_csv, reconciled, RANGO, nube, off, devs_df, ventas_log, devol_log,
                   registro_csv, devoluciones_csv, task, nops, restarts>>

\* lines 2446-2453: under the four locks the tables become what was read;
\* after the block reconcile_from_logs_sync runs on them, without a lock
\* and without suspending
RL_Enter(p) ==
    /\ Ready(p, "rl_enter")
    /\ users_lock.holder \in {0, p}
    /\ CanEnter(p)
    /\ LET r == Reconciled(task[p].df, task[p].devs, ventas_log, devol_log,
                           registro_csv, devoluciones_csv, TRUE, TRUE, TRUE)
       IN  /\ reg_df' = r.reg
           /\ devs_df' = r.devs
           /\ registro_csv' = r.rcsv
           /\ devoluciones_csv' = r.dcsv
    /\ users_df' = task[p].dfu
    /\ lotes_df' = task[p].dfl
    /\ reconciled' = reconciled + 1
    /\ users_lock' = IF users_lock.holder = p THEN Released(users_lock) ELSE users_lock
    /\ reg_lock' = AfterBlock(p)
    /\ task' = [task EXCEPT ![p].pc = "rl_reply"]
    /\ loop' = 0
    /\ UNCHANGED <<lotes_csv, aw, al, usuarios_pendientes, kicked_users, usuarios_csv,
                   RANGO, nube, off, ventas_log, devol_log, nops, restarts>>

\* lines 2455-2462: the summary was sent
RL_Replied(p) ==
    /\ Ready(p, "rl_reply")
    /\ Finish(p)
    /\ UNCHANGED <<users_df, reg_df, lotes_df, devs_df, reg_lock, ventas_log, devol_log,
                   registro_csv, devoluciones_csv, lotes_csv, aw, al, users_lock, usuarios_pendientes, kicked_users, usuarios_csv, reconciled, RANGO, nube, off, nops, restarts>>

-----------------------------------------------------------------------------
(* reset_registro: the administrator starts a new round *)

\* the position in front of the save_* of a file
CopyPc(file) ==
    IF file = "usuarios" THEN "rs_copy_users"
    ELSE IF file = "registro" THEN "rs_copy_reg" ELSE "rs_copy"

\* lines 2238-2269: the four snapshots and the two journals are renamed
\* away; nothing awaits before the `async with` of line 2271
RS_Begin(p, budget, solo) ==
    /\ Dispatch(p, budget, solo)
    /\ registro_csv' = <<>>
    /\ usuarios_csv' = <<>>
    /\ lotes_csv' = <<>>
    /\ devoluciones_csv' = <<>>
    /\ ventas_log' = <<>>
    /\ devol_log' = <<>>
    /\ task' = [task EXCEPT ![p] = NewTask("rs", "rs_enter", 0, "", {})]
    /\ loop' = p
    /\ UNCHANGED <<users_df, reg_df, lotes_df, devs_df, reg_lock, aw, al, users_lock,
                   usuarios_pendientes, kicked_users, reconciled, RANGO, nube, off, restarts>>

\* line 2271: users_lock is taken first; reg_lock is held by another task,
\* reset_registro queues behind it with users_lock in its hand
RS_Wait(p) ==
    /\ Ready(p, "rs_enter")
    /\ users_lock.holder \in {0, p}
    /\ ~CanEnter(p)
    /\ users_lock' = [users_lock EXCEPT !.holder = p]
    /\ reg_lock' = [reg_lock EXCEPT !.waiters = Append(@, p)]
    /\ loop' = 0
    /\ UNCHANGED <<users_df, reg_df, lotes_df, devs_df, ventas_log, devol_log,
                   registro_csv, devoluciones_csv, lotes_csv, aw, al, usuarios_pendientes,
                   kicked_users, usuarios_csv, reconciled, RANGO, nube, off, task, nops, restarts>>

\* lines 2271-2275: under the four locks the four tables become empty;
\* save_users follows
RS_Enter(p) ==
    /\ Ready(p, "rs_enter")
    /\ users_lock.holder \in {0, p}
    /\ CanEnter(p)
    /\ users_df' = <<>>
    /\ reg_df' = <<>>
    /\ lotes_df' = <<>>
    /\ devs_df' = <<>>
    /\ users_lock' = IF users_lock.holder = p THEN Released(users_lock) ELSE users_lock
    /\ reg_lock' = AfterBlock(p)
    /\ task' = [task EXCEPT ![p].pc = "rs_copy_users",
                            ![p].todo = <<"usuarios", "registro", "lotes", "devoluciones">>]
    /\ loop' = p
    /\ UNCHANGED <<ventas_log, devol_log, registro_csv, devoluciones_csv, lotes_csv, aw, al,
                   usuarios_pendientes, kicked_users, usuarios_csv, reconciled, RANGO, nube, off, nops,
                   restarts>>

\* lines 2278-2281 with 1624-1642: the save_* of the next file copies its
\* table under the table's lock
RS_Copy(p) ==
    /\ Runnable(p)
    /\ task[p].pc \in {"rs_copy_users", "rs_copy_reg", "rs_copy"}
    /\ p \notin Range(reg_lock.waiters) \cup Range(users_lock.waiters)
    /\ LET file == Head(task[p].todo)
       IN  /\ file = "usuarios" => UCanEnter(p)
           /\ file = "registro" => CanEnter(p)
           /\ users_lock' = IF file = "usuarios" THEN UAfterBlock(p) ELSE users_lock
           /\ reg_lock' = IF file = "registro" THEN AfterBlock(p) ELSE reg_lock
           /\ task' = [task EXCEPT
                  ![p].pc = "rs_write",
                  ![p].df = IF file = "usuarios" THEN users_df
                            ELSE IF file = "registro" THEN reg_df
                            ELSE IF file = "lotes" THEN lotes_df ELSE devs_df]
    /\ loop' = 0
    /\ UNCHANGED <<users_df, reg_df, lotes_df, devs_df, ventas_log, devol_log,
                   registro_csv, devoluciones_csv, lotes_csv, aw, al, usuarios_pendientes,
                   kicked_users, usuarios_csv, reconciled, RANGO, nube, off, nops, restarts>>

\* atomic_write_csv replaced the file; the next save_* or the reply follows
RS_Written(p) ==
    /\ Ready(p, "rs_write")
    /\ LET file == Head(task[p].todo)
           rest == Tail(task[p].todo)
       IN  /\ usuarios_csv' = IF file = "usuarios" THEN task[p].df ELSE usuarios_csv
           /\ registro_csv' = IF file = "registro" THEN task[p].df ELSE registro_csv
           /\ lotes_csv' = IF file = "lotes" THEN task[p].df ELSE lotes_csv
           /\ devoluciones_csv' = IF file = "devoluciones" THEN task[p].df
                                  ELSE devoluciones_csv
           /\ task' = [task EXCEPT
                  ![p].todo = rest,
                  ![p].pc = IF rest = <<>> THEN "rs_reply" ELSE CopyPc(Head(rest))]
           /\ loop' = IF rest = <<>> THEN 0 ELSE p
    /\ UNCHANGED <<users_df, reg_df, lotes_df, devs_df, reg_lock, ventas_log, devol_log,
                   aw, al, users_lock, usuarios_pendientes, kicked_users, reconciled, RANGO, nube, off,
                   nops, restarts>>

\* line 2282: the reply was sent
RS_Replied(p) ==
    /\ Ready(p, "rs_reply")
    /\ Finish(p)
    /\ UNCHANGED <<users_df, reg_df, lotes_df, devs_df, reg_lock, ventas_log, devol_log,
                   registro_csv, devoluciones_csv, lotes_csv, aw, al, users_lock,
                   usuarios_pendientes, kicked_users, usuarios_csv, reconciled, RANGO, nube, off, nops,
                   restarts>>

-----------------------------------------------------------------------------
(* Specifications *)

Starts(p, budget, solo) ==
    HM_Begin(p, budget, solo) \/ VC_Begin(p, budget, solo) \/ RC_Begin(p, budget, solo)

Steps(p) ==
    \/ HM_Check(p) \/ HM_Log(p) \/ HM_Sent(p)
    \/ VC_Check(p) \/ VC_Log(p)
    \/ InsertSales(p)
    \/ RC_Enter(p) \/ RC_Rejected(p) \/ RC_Log(p) \/ RC_Apply(p)
    \/ SaveReg_Copy(p) \/ SaveReg_Written(p) \/ SaveDevs_Written(p)

Fails(p) == AppendFail(p) \/ SendFail(p) \/ WriteFail(p)

\* everything: concurrent handlers, failures, restarts
Next ==
    \/ \E p \in Procs : Starts(p, MaxOpsAll, FALSE) \/ Steps(p) \/ Wait(p) \/ Fails(p)
    \/ Restart
    \/ RestartWriteFail

Spec == Init /\ [][Next]_vars

\* concurrent handlers, every collaborator succeeds, no restart
NextRun == \E p \in Procs : Starts(p, MaxOps, FALSE) \/ Steps(p) \/ Wait(p)

SpecRun == Init /\ [][NextRun]_vars

\* concurrent handlers, every collaborator succeeds, restarts
NextOK == NextRun \/ Restart

SpecOK == Init /\ [][NextOK]_vars

\* one operation at a time, with failures and restarts
NextSeq ==
    \/ \E p \in Procs : Starts(p, MaxOps, TRUE) \/ Steps(p) \/ Fails(p)
    \/ Restart
    \/ RestartWriteFail

SpecSeq == Init /\ [][NextSeq]_vars

\* the administrator's assignment commands alone, running concurrently
LoteStarts(p, budget) == LT_Assign(p, budget, FALSE) \/ QL_Remove(p, budget, FALSE)

LoteSteps(p) == SaveLotes_Written(p) \/ LoteReplied(p) \/ LotesWriteFail(p)

NextLote == \E p \in Procs : LoteStarts(p, MaxOpsLote) \/ LoteSteps(p)

SpecLote == Init /\ [][NextLote]_vars

\* assignment commands running concurrently with sales and returns
NextLoteSale ==
    \E p \in Procs :
        \/ LoteStarts(p, MaxOpsAll) \/ LoteSteps(p)
        \/ Starts(p, MaxOpsAll, FALSE) \/ Steps(p) \/ Wait(p)

SpecLoteSale == Init /\ [][NextLoteSale]_vars

\* the startup sequence alone, on the files a stopped or crashed process can
\* leave behind, drawn from bounded sets: every row of the snapshot and every
\* journaled return has its sale in ventas.log (the handlers journal a sale
\* before they insert it and return only rows they hold); a torn line may
\* follow a crash
SeqsUpTo(S, k) == UNION {[1..m -> S] : m \in 0..k}

SnapshotRows == {RegRow(u, NameOfUid(u), n) : u \in UserIds, n \in Tickets}

ShortLine == <<"venta", "1", "ana">>

VentaLines == {VentaLine(u, NameOfUid(u), n, Now) : u \in UserIds, n \in Tickets}
                  \cup {ShortLine}

DevolLines == {DevolLine(u, NameOfUid(u), n, Now, FullName(u)) : u \in UserIds, n \in Tickets}

HasSaleLine(log, k) ==
    \E i \in DOMAIN log :
        LET e == parse_log_line(log[i])
        IN  e.tipo = "venta" /\ <<e.usuario_id, e.nombre_usuario, e.imagen>> = k

InitRec ==
    /\ users_df = InitialUsers
    /\ reg_df = <<>>
    /\ lotes_df = <<>>
    /\ devs_df = <<>>
    /\ reg_lock = FreeLock
    /\ ventas_log \in SeqsUpTo(VentaLines, MaxLines)
    /\ devol_log \in SeqsUpTo(DevolLines, MaxDevol)
    /\ registro_csv \in SeqsUpTo(SnapshotRows, MaxRows)
    /\ \A i \in DOMAIN registro_csv : HasSaleLine(ventas_log, Key(registro_csv[i]))
    /\ \A i \in DOMAIN devol_log :
           LET d == parse_log_line(devol_log[i])
           IN  HasSaleLine(ventas_log, <<d.usuario_id, d.nombre_usuario, d.imagen>>)
    /\ devoluciones_csv = <<>>
    /\ lotes_csv = <<>>
    /\ aw = IdleWrite
    /\ al = IdleAppend
    /\ users_lock = FreeLock
    /\ usuarios_pendientes = {}
    /\ kicked_users = {}
    /\ usuarios_csv = InitialUsers
    /\ reconciled = 0
    /\ RANGO = <<>>
    /\ off = NoOff
    /\ nube = NubeIdle
    /\ task = [p \in Procs |-> IdleTask]
    /\ loop = 0
    /\ nops = 0
    /\ restarts = 0

\* the process is started once more, nothing was appended in between
Rerun == restarts < MaxRuns /\ Startup(TRUE, TRUE, TRUE)

NextRec == Rerun

SpecRec == InitRec /\ [][NextRec]_vars

\* sales and returns together with reload_cmd, nothing fails
NextReload ==
    \E p \in Procs :
        \/ Starts(p, MaxOpsAll, FALSE) \/ Steps(p) \/ Wait(p)
        \/ RL_Begin(p, MaxOpsAll, FALSE) \/ RL_Wait(p) \/ RL_Enter(p) \/ RL_Replied(p)

SpecReload == Init /\ [][NextReload]_vars

\* a new deployment: no file exists, nobody is registered; up to NProcReg
\* updates are handled at a time
RegProcs == 1..NProcReg

InitReg ==
    /\ users_df = <<>>
    /\ reg_df = <<>>
    /\ lotes_df = <<>>
    /\ devs_df = <<>>
    /\ reg_lock = FreeLock
    /\ ventas_log = <<>>
    /\ devol_log = <<>>
    /\ registro_csv = <<>>
    /\ devoluciones_csv = <<>>
    /\ lotes_csv = <<>>
    /\ aw = IdleWrite
    /\ al = IdleAppend
    /\ users_lock = FreeLock
    /\ usuarios_pendientes = {}
    /\ kicked_users = {}
    /\ usuarios_csv = <<>>
    /\ reconciled = 1
    /\ RANGO = <<>>
    /\ off = NoOff
    /\ nube = NubeIdle
    /\ task = [p \in RegProcs |-> IdleTask]
    /\ loop = 0
    /\ nops = 0
    /\ restarts = 0

\* registrations and /kick, nothing fails
NextReg ==
    \E p \in RegProcs :
        \/ RG_Begin(p, MaxOpsReg, FALSE) \/ RG_Copy(p) \/ RG_Insert(p)
        \/ SaveUsers_Copy(p) \/ SaveUsers_Written(p) \/ UserReplied(p)
        \/ KK_Begin(p, MaxOpsReg, FALSE) \/ KK_Enter(p) \/ KK_Rejected(p)
        \/ UWait(p)

SpecReg == InitReg /\ [][NextReg]_vars

\* the process started with a rango.txt that an earlier /rango wrote, or
\* with none
InitQuery ==
    /\ users_df = InitialUsers
    /\ reg_df = <<>>
    /\ lotes_df = <<>>
    /\ devs_df = <<>>
    /\ reg_lock = FreeLock
    /\ ventas_log = <<>>
    /\ devol_log = <<>>
    /\ registro_csv = <<>>
    /\ devoluciones_csv = <<>>
    /\ lotes_csv = <<>>
    /\ aw = IdleWrite
    /\ al = IdleAppend
    /\ users_lock = FreeLock
    /\ usuarios_pendientes = {}
    /\ kicked_users = {}
    /\ usuarios_csv = InitialUsers
    /\ reconciled = 1
    /\ RANGO \in Rangos
    /\ off = NoOff
    /\ nube = NubeIdle
    /\ task = [p \in Procs |-> IdleTask]
    /\ loop = 0
    /\ nops = 0
    /\ restarts = 0

\* sales, returns and assignments together with /disp, nothing fails
NextQuery ==
    \E p \in Procs :
        \/ Starts(p, MaxOps, FALSE) \/ Steps(p) \/ Wait(p)
        \/ LT_Assign(p, MaxOps, FALSE) \/ SaveLotes_Written(p) \/ LoteReplied(p)
        \/ MD_Begin(p, MaxOps, FALSE) \/ MD_Enter(p) \/ MD_Rejected(p) \/ MD_Read(p)
        \/ MD_Replied(p) \/ UWait(p)

SpecQuery == InitQuery /\ [][NextQuery]_vars

\* the first user registered with a name that holds a ';' (the registration
\* flow takes any text that is not empty and not in use)
NamedUsers == <<UserRow(1, "a;1"), UserRow(2, "luis")>>

InitNames ==
    /\ users_df = NamedUsers
    /\ reg_df = <<>>
    /\ lotes_df = <<>>
    /\ devs_df = <<>>
    /\ reg_lock = FreeLock
    /\ ventas_log = <<>>
    /\ devol_log = <<>>
    /\ registro_csv = <<>>
    /\ devoluciones_csv = <<>>
    /\ lotes_csv = <<>>
    /\ aw = IdleWrite
    /\ al = IdleAppend
    /\ users_lock = FreeLock
    /\ usuarios_pendientes = {}
    /\ kicked_users = {}
    /\ usuarios_csv = NamedUsers
    /\ reconciled = 1
    /\ RANGO = <<>>
    /\ off = NoOff
    /\ nube = NubeIdle
    /\ task = [p \in Procs |-> IdleTask]
    /\ loop = 0
    /\ nops = 0
    /\ restarts = 0

SpecNames == InitNames /\ [][NextRun]_vars

\* sales and returns together with /reset, nothing fails
-----------------------------------------------------------------------------
(* off_cmd: the administrator announces the shutdown in two minutes *)

\* the seconds between /off and the shutdown, lines 2516 and 2549
OffDelay == 120

\* lines 2529-2545: `if OFF_TASK and not OFF_TASK.done()` answers that the
\* shutdown is already programmed; otherwise the confirmation is awaited
OC_Begin(p, budget, solo) ==
    /\ Dispatch(p, budget, solo)
    /\ task' = [task EXCEPT ![p] =
                   NewTask("oc", IF off.OFF_TASK # 0 THEN "oc_reply" ELSE "oc_ids", 0, "", {})]
    /\ loop' = 0
    /\ UNCHANGED <<users_df, reg_df, lotes_df, devs_df, reg_lock, ventas_log, devol_log,
                   registro_csv, devoluciones_csv, lotes_csv, aw, al, users_lock,
                   usuarios_pendientes, kicked_users, usuarios_csv, reconciled, RANGO, nube, off,
                   restarts>>

\* lines 2542-2543: the answer was sent, `return`
OC_Replied(p) ==
    /\ Ready(p, "oc_reply")
    /\ Finish(p)
    /\ UNCHANGED <<users_df, reg_df, lotes_df, devs_df, reg_lock, ventas_log, devol_log,
                   registro_csv, devoluciones_csv, lotes_csv, aw, al, users_lock,
                   usuarios_pendientes, kicked_users, usuarios_csv, reconciled, RANGO, nube, off,
                   nops, restarts>>

\* lines 2499-2512, called at 2546: _broadcast_to_all__off reads the ids
\* under users_lock and then awaits one send_message per user
OC_Ids(p) ==
    /\ UReady(p, "oc_ids")
    /\ UCanEnter(p)
    /\ users_lock' = UAfterBlock(p)
    /\ task' = [task EXCEPT ![p].pc = "oc_send"]
    /\ loop' = 0
    /\ UNCHANGED <<users_df, reg_df, lotes_df, devs_df, reg_lock, ventas_log, devol_log,
                   registro_csv, devoluciones_csv, lotes_csv, aw, al, usuarios_pendientes,
                   kicked_users, usuarios_csv, reconciled, RANGO, nube, off, nops, restarts>>

\* lines 2548-2550: after the broadcast OFF_DEADLINE is loop.time() + 120 and
\* OFF_TASK the new _shutdown_after_delay__off task; time has passed over the
\* awaits
OC_Scheduled(p) ==
    /\ Ready(p, "oc_send")
    /\ LET now == off.clock + 1
           k == off.made + 1
       IN  off' = [OFF_TASK |-> k, OFF_DEADLINE |-> now + OffDelay, clock |-> now,
                   alive |-> off.alive \cup {k}, made |-> k]
    /\ Finish(p)
    /\ UNCHANGED <<users_df, reg_df, lotes_df, devs_df, reg_lock, ventas_log, devol_log,
                   registro_csv, devoluciones_csv, lotes_csv, aw, al, users_lock,
                   usuarios_pendientes, kicked_users, usuarios_csv, reconciled, RANGO, nube,
                   nops, restarts>>

\* lines 2514-2527: the task k wakes after its sleep, broadcasts, and its
\* `finally` sets OFF_TASK and OFF_DEADLINE to None, whichever task OFF_TASK
\* names; app.stop() is called without await
ShutdownAfterDelay(k) ==
    /\ loop = 0
    /\ k \in off.alive
    /\ off' = [off EXCEPT !.OFF_TASK = 0, !.OFF_DEADLINE = 0, !.alive = @ \ {k}]
    /\ UNCHANGED <<users_df, reg_df, lotes_df, devs_df, reg_lock, ventas_log, devol_log,
                   registro_csv, devoluciones_csv, lotes_csv, aw, al, users_lock,
                   usuarios_pendientes, kicked_users, usuarios_csv, reconciled, RANGO, nube,
                   task, loop, nops, restarts>>

NextOff ==
    \/ \E p \in RegProcs :
           \/ OC_Begin(p, MaxOpsReg, FALSE) \/ OC_Replied(p) \/ OC_Ids(p) \/ OC_Scheduled(p)
    \/ \E k \in 1..MaxOpsReg : ShutdownAfterDelay(k)

SpecOff == InitReg /\ [][NextOff]_vars

NextReset ==
    \E p \in Procs :
        \/ Starts(p, MaxOpsAll, FALSE) \/ Steps(p) \/ Wait(p)
        \/ RS_Begin(p, MaxOpsAll, FALSE) \/ RS_Wait(p) \/ RS_Enter(p) \/ RS_Copy(p)
        \/ RS_Written(p) \/ RS_Replied(p)

SpecReset == Init /\ [][NextReset]_vars

\* sales, returns, queries and resets of up to NProcReg tasks at a time, with
\* a range defined: reg_lock is held over the rejection reply of
\* remover_carton (lines 2138-2140), users_lock over the one of
\* mostrar_disponibles (lines 2096-2100), and reset_registro takes both; the
\* event loop runs every task that is ready
NextLocks ==
    \E p \in RegProcs :
        \/ HM_Begin(p, MaxOps, FALSE) \/ HM_Check(p) \/ HM_Log(p) \/ HM_Sent(p)
        \/ InsertSales(p)
        \/ RC_Begin(p, MaxOps, FALSE) \/ RC_Enter(p) \/ RC_Rejected(p) \/ RC_Log(p)
        \/ RC_Apply(p)
        \/ SaveReg_Copy(p) \/ SaveReg_Written(p) \/ SaveDevs_Written(p) \/ Wait(p)
        \/ MD_Begin(p, MaxOps, FALSE) \/ MD_Enter(p) \/ MD_Rejected(p) \/ MD_Read(p)
        \/ MD_Replied(p) \/ UWait(p)
        \/ RS_Begin(p, MaxOps, FALSE) \/ RS_Wait(p) \/ RS_Enter(p) \/ RS_Copy(p)
        \/ RS_Written(p) \/ RS_Replied(p)

InitLocks ==
    /\ users_df = InitialUsers
    /\ reg_df = <<>>
    /\ lotes_df = <<>>
    /\ devs_df = <<>>
    /\ reg_lock = FreeLock
    /\ ventas_log = <<>>
    /\ devol_log = <<>>
    /\ registro_csv = <<>>
    /\ devoluciones_csv = <<>>
    /\ lotes_csv = <<>>
    /\ aw = IdleWrite
    /\ al = IdleAppend
    /\ users_lock = FreeLock
    /\ usuarios_pendientes = {}
    /\ kicked_users = {}
    /\ usuarios_csv = InitialUsers
    /\ reconciled = 1
    /\ RANGO = <<1, MaxTicket>>
    /\ off = NoOff
    /\ nube = NubeIdle
    /\ task = [p \in RegProcs |-> IdleTask]
    /\ loop = 0
    /\ nops = 0
    /\ restarts = 0

SpecLocks == InitLocks /\ [][NextLocks]_vars /\ WF_vars(NextLocks)

-----------------------------------------------------------------------------
(* bot_nube.py: the port of the bot that keeps its tables in CSV files of  *)
(* a Drive folder. Application.builder() (line 778) is built without       *)
(* concurrent_updates: an update is handled when the one before it has     *)
(* returned. usuarios.csv holds the users 1 and 2, lotes.csv no row.       *)

\* the state of the bot that keeps its tables on the local disk
LocalBot ==
    <<users_df, reg_df, lotes_df, devs_df, reg_lock, ventas_log, devol_log, registro_csv,
      devoluciones_csv, lotes_csv, aw, al, users_lock, usuarios_pendientes, kicked_users,
      usuarios_csv, reconciled, RANGO, off, task, loop, nops, restarts>>

NubeRow(uid, n) == [usuario_id |-> uid, imagen |-> n]

\* the registro.csv files the folder may hold when the bot starts: up to
\* MaxRows rows, no ticket twice
NubeRegistros ==
    {r \in SeqsUpTo({NubeRow(u, n) : u \in UserIds, n \in Tickets}, MaxRows) :
        \A i, j \in DOMAIN r : r[i].imagen = r[j].imagen => i = j}

\* the handler returns, or the exception it raised leaves it
NubeDone(st) ==
    [st EXCEPT !.pc = "idle", !.op = "", !.uid = 0, !.todo = <<>>, !.removed = {}]

\* the `for n in ...` loops of lines 540-542, 567-569 and 722-742 go on to
\* the next number; the reply after the last one ends the handler
NubeNext(st) ==
    IF Len(st.todo) > 1 THEN [st EXCEPT !.todo = Tail(@)] ELSE NubeDone(st)

\* a handler starts its loop over nums
NubeLoop(st, op, uid, nums, removed) ==
    IF nums = {} THEN NubeDone(st)
    ELSE [st EXCEPT !.pc = "append", !.op = op, !.uid = uid, !.todo = SeqOfSet(nums),
                    !.removed = removed]

\* csv_append_row with a CSV_LOCK that lets its holder in again: the row is
\* written and the caller goes on
csv_append_row_reentrant(st) ==
    LET row == NubeRow(st.uid, Head(st.todo))
    IN  NubeNext(IF st.op = "dv"
                 THEN [st EXCEPT !.devoluciones = Append(@, row)]
                 ELSE [st EXCEPT !.registro = Append(@, row)])

\* csv_append_row, lines 161-165: CSV_LOCK is taken (162), the file read
\* (163), and csv_write_all awaited inside the block (165); csv_write_all
\* starts with `async with CSV_LOCK` (151) and asyncio.Lock is not
\* reentrant: the caller waits for a release only itself could make
csv_append_row(st) == [st EXCEPT !.CSV_LOCK = 1, !.pc = "blocked"]

\* vendido_cmd, lines 527-543: an unregistered user gets the notice;
\* otherwise one row per number is appended, whatever registro.csv holds
NV_Begin(uid, nums) ==
    /\ nube.pc = "idle"
    /\ nube.ops < MaxOps
    /\ LET st == [nube EXCEPT !.ops = @ + 1]
       IN  nube' = IF uid \notin UserIds THEN st ELSE NubeLoop(st, "vc", uid, nums, {})
    /\ UNCHANGED LocalBot

\* devol_cmd, lines 545-566: the rows of the user for the numbers leave
\* registro.csv through csv_write_all when there are any (556-565), then
\* one return row per number of nums is appended (567-569)
ND_Begin(uid, nums) ==
    /\ nube.pc = "idle"
    /\ nube.ops < MaxOps
    /\ LET st == [nube EXCEPT !.ops = @ + 1]
           mine(r) == r.usuario_id = uid /\ r.imagen \in nums
           removed == {r.imagen : r \in {x \in Range(nube.registro) : mine(x)}}
           left == SelectSeq(nube.registro, LAMBDA r : ~mine(r))
       IN  nube' = IF uid \notin UserIds THEN st
                   ELSE NubeLoop([st EXCEPT !.registro = left], "dv", uid, nums, removed)
    /\ UNCHANGED LocalBot

\* text_handler, lines 665-720: a registered user names numbers; without
\* assignments all are allowed, those in registro.csv are dropped
NT_Begin(uid, nums) ==
    /\ nube.pc = "idle"
    /\ nube.ops < MaxOps
    /\ nums # {}
    /\ LET st == [nube EXCEPT !.ops = @ + 1]
           vendidos_global == {r.imagen : r \in Range(nube.registro)}
       IN  nube' = IF uid \notin UserIds THEN st
                   ELSE NubeLoop(st, "th", uid, nums \ vendidos_global, {})
    /\ UNCHANGED LocalBot

\* lines 542, 569, 740: the handler calls csv_append_row for the number
NA_Append ==
    /\ nube.pc = "append"
    /\ nube' = csv_append_row(nube)
    /\ UNCHANGED LocalBot

\* a Drive request raises before the row is written: in text_handler the
\* image is not found (722-725) or the `except` of line 741 logs it, and the
\* loop goes on; in vendido_cmd and devol_cmd the exception of csv_read_all
\* (163) leaves csv_append_row, which frees CSV_LOCK, and the handler
NA_Raised ==
    /\ nube.pc = "append"
    /\ nube' = IF nube.op = "th" THEN NubeNext(nube) ELSE NubeDone(nube)
    /\ UNCHANGED LocalBot

NextNube ==
    \/ \E uid \in QueryIds, nums \in SUBSET Tickets :
           NV_Begin(uid, nums) \/ ND_Begin(uid, nums) \/ NT_Begin(uid, nums)
    \/ NA_Append
    \/ NA_Raised

InitNube ==
    /\ users_df = InitialUsers
    /\ reg_df = <<>>
    /\ lotes_df = <<>>
    /\ devs_df = <<>>
    /\ reg_lock = FreeLock
    /\ ventas_log = <<>>
    /\ devol_log = <<>>
    /\ registro_csv = <<>>
    /\ devoluciones_csv = <<>>
    /\ lotes_csv = <<>>
    /\ aw = IdleWrite
    /\ al = IdleAppend
    /\ users_lock = FreeLock
    /\ usuarios_pendientes = {}
    /\ kicked_users = {}
    /\ usuarios_csv = InitialUsers
    /\ reconciled = 1
    /\ RANGO = <<>>
    /\ off = NoOff
    /\ nube \in {[NubeIdle EXCEPT !.registro = r] : r \in NubeRegistros}
    /\ task = [p \in Procs |-> IdleTask]
    /\ loop = 0
    /\ nops = 0
    /\ restarts = 0

\* the event loop runs a handler that can go on
SpecNube == InitNube /\ [][NextNube]_vars /\ WF_vars(NextNube)

\* the startup sequence on files whose journals need not belong together:
\* reset_registro renames ventas.log before devoluciones.log (lines
\* 2266-2269) and ends with the exception if the second rename fails, which
\* leaves return lines without their sale lines
InitRecAny ==
    /\ users_df = InitialUsers
    /\ reg_df = <<>>
    /\ lotes_df = <<>>
    /\ devs_df = <<>>
    /\ reg_lock = FreeLock
    /\ ventas_log \in SeqsUpTo(VentaLines, MaxLines)
    /\ devol_log \in SeqsUpTo(DevolLines, MaxDevol)
    /\ registro_csv \in SeqsUpTo(SnapshotRows, MaxRows)
    /\ devoluciones_csv = <<>>
    /\ lotes_csv = <<>>
    /\ aw = IdleWrite
    /\ al = IdleAppend
    /\ users_lock = FreeLock
    /\ usuarios_pendientes = {}
    /\ kicked_users = {}
    /\ usuarios_csv = InitialUsers
    /\ reconciled = 0
    /\ RANGO = <<>>
    /\ off = NoOff
    /\ nube = NubeIdle
    /\ task = [p \in Procs |-> IdleTask]
    /\ loop = 0
    /\ nops = 0
    /\ restarts = 0

SpecRecAny == InitRecAny /\ [][NextRec]_vars

-----------------------------------------------------------------------------
(* atomic_write_csv and append_log_line step by step: one call of each,    *)
(* on registro.csv and ventas.log, with the failures the operating system  *)
(* can answer with and the process being stopped in the middle.            *)

WriteRetries == 6
AppendRetries == 5

\* what the two calls leave alone
StoreVars == <<users_df, reg_df, lotes_df, devs_df, reg_lock, devol_log,
               devoluciones_csv, lotes_csv, users_lock, usuarios_pendientes, kicked_users,
               usuarios_csv, reconciled, RANGO, nube, off, task, loop, nops, restarts>>

\* the file at `path` before the call
OldFiles == SeqsUpTo({RegRow(1, "ana", 1)}, MaxRows)

InitIO ==
    /\ users_df = InitialUsers
    /\ reg_df = <<>>
    /\ lotes_df = <<>>
    /\ devs_df = <<>>
    /\ reg_lock = FreeLock
    /\ ventas_log = <<>>
    /\ devol_log = <<>>
    /\ registro_csv \in OldFiles
    /\ devoluciones_csv = <<>>
    /\ lotes_csv = <<>>
    /\ \E df \in SeqsUpTo(SnapshotRows, MaxRows) :
           aw = [IdleWrite EXCEPT !.pc = "loop", !.df = df, !.old = registro_csv]
    /\ al = [IdleAppend EXCEPT !.pc = "loop", !.line = VentaLine(1, "ana", 1, Now)]
    /\ users_lock = FreeLock
    /\ usuarios_pendientes = {}
    /\ kicked_users = {}
    /\ usuarios_csv = InitialUsers
    /\ reconciled = 1
    /\ RANGO = <<>>
    /\ off = NoOff
    /\ nube = NubeIdle
    /\ task = [p \in Procs |-> IdleTask]
    /\ loop = 0
    /\ nops = 0
    /\ restarts = 0

\* line 1554-1555: the next attempt begins, mkstemp makes an empty file
AW_Mkstemp ==
    /\ aw.pc = "loop"
    /\ aw.attempt < WriteRetries
    /\ aw' = [aw EXCEPT !.pc = "write", !.attempt = @ + 1, !.tmp = <<>>, !.tmp_exists = TRUE]
    /\ UNCHANGED <<StoreVars, registro_csv, ventas_log, al>>

\* a writer that puts the rows into the target file itself
AW_WriteRowInPlace ==
    /\ aw.pc = "write"
    /\ Len(aw.tmp) < Len(aw.df)
    /\ aw' = [aw EXCEPT !.tmp = Append(@, aw.df[Len(aw.tmp) + 1])]
    /\ registro_csv' = Append(aw.tmp, aw.df[Len(aw.tmp) + 1])
    /\ UNCHANGED <<StoreVars, ventas_log, al>>

\* lines 1557-1558: df.to_csv(f) puts one more row into the temporary file
AW_WriteRow ==
    /\ aw.pc = "write"
    /\ Len(aw.tmp) < Len(aw.df)
    /\ aw' = [aw EXCEPT !.tmp = Append(@, aw.df[Len(aw.tmp) + 1])]
    /\ UNCHANGED <<StoreVars, registro_csv, ventas_log, al>>

\* lines 1557-1560 raise (disk full, I/O error): no `except` catches it, the
\* `finally` removes the temporary file and the exception leaves the call
AW_WriteError ==
    /\ aw.pc = "write"
    /\ aw' = [aw EXCEPT !.pc = "raised", !.tmp = <<>>, !.tmp_exists = FALSE]
    /\ UNCHANGED <<StoreVars, registro_csv, ventas_log, al>>

\* lines 1562-1563: os.replace renames the complete temporary file
AW_Replace ==
    /\ aw.pc = "write"
    /\ aw.tmp = aw.df
    /\ registro_csv' = aw.tmp
    /\ aw' = [aw EXCEPT !.pc = "returned", !.tmp = <<>>, !.tmp_exists = FALSE]
    /\ UNCHANGED <<StoreVars, ventas_log, al>>

\* lines 1564-1572: os.replace raises PermissionError; sleep, remove the
\* temporary file, next round of the loop
AW_ReplaceDenied ==
    /\ aw.pc = "write"
    /\ aw.tmp = aw.df
    /\ aw' = [aw EXCEPT !.pc = "loop", !.last_exc = TRUE, !.tmp = <<>>, !.tmp_exists = FALSE]
    /\ UNCHANGED <<StoreVars, registro_csv, ventas_log, al>>

\* lines 1573-1574: the loop is over
AW_LoopEnd ==
    /\ aw.pc = "loop"
    /\ aw.attempt >= WriteRetries
    /\ aw' = [aw EXCEPT !.pc = IF aw.last_exc THEN "raised" ELSE "returned"]
    /\ UNCHANGED <<StoreVars, registro_csv, ventas_log, al>>

\* the process is stopped while the call runs: nothing is cleaned up
AW_Kill ==
    /\ aw.pc \in {"loop", "write"}
    /\ aw' = [aw EXCEPT !.pc = "killed"]
    /\ UNCHANGED <<StoreVars, registro_csv, ventas_log, al>>

\* lines 1583-1587: open, write, flush, fsync, return
AL_Write ==
    /\ al.pc = "loop"
    /\ al.attempt < AppendRetries
    /\ ventas_log' = Append(ventas_log, al.line)
    /\ al' = [al EXCEPT !.pc = "returned", !.attempt = @ + 1]
    /\ UNCHANGED <<StoreVars, registro_csv, aw>>

\* a retry that does not use up an attempt
AL_DeniedUncounted ==
    /\ al.pc = "loop"
    /\ al.attempt < AppendRetries
    /\ al' = [al EXCEPT !.last_exc = ~@]
    /\ UNCHANGED <<StoreVars, registro_csv, ventas_log, aw>>

\* lines 1588-1590: open raises PermissionError; sleep, next round
AL_Denied ==
    /\ al.pc = "loop"
    /\ al.attempt < AppendRetries
    /\ al' = [al EXCEPT !.attempt = @ + 1, !.last_exc = TRUE]
    /\ UNCHANGED <<StoreVars, registro_csv, ventas_log, aw>>

\* lines 1591-1592: the loop is over
AL_LoopEnd ==
    /\ al.pc = "loop"
    /\ al.attempt >= AppendRetries
    /\ al' = [al EXCEPT !.pc = IF al.last_exc THEN "raised" ELSE "returned"]
    /\ UNCHANGED <<StoreVars, registro_csv, ventas_log, aw>>

NextIO ==
    \/ AW_Mkstemp \/ AW_WriteRow \/ AW_WriteError \/ AW_Replace \/ AW_ReplaceDenied
    \/ AW_LoopEnd \/ AW_Kill
    \/ AL_Write \/ AL_Denied \/ AL_LoopEnd

SpecIO == InitIO /\ [][NextIO]_vars

\* a call that is not stopped goes on running
SpecIOLive == InitIO /\ [][NextIO]_vars /\ WF_vars(NextIO)

-----------------------------------------------------------------------------
(* Properties *)

KeyCount(df, k) == Cardinality({i \in DOMAIN df : Key(df[i]) = k})

KeysOf(df) == {Key(df[i]) : i \in DOMAIN df}

SameRows(a, b) == \A k \in KeysOf(a) \cup KeysOf(b) : KeyCount(a, k) = KeyCount(b, k)

\* the journal holds an event of this type for the row's (id, name, ticket)
Journaled(log, tipo, r) ==
    \E i \in DOMAIN log :
        LET e == parse_log_line(log[i])
        IN  e.tipo = tipo /\ <<e.usuario_id, e.nombre_usuario, e.imagen>> = Key(r)

EventCount(log, tipo, k) ==
    Cardinality({i \in DOMAIN log :
        LET e == parse_log_line(log[i])
        IN  e.tipo = tipo /\ <<e.usuario_id, e.nombre_usuario, e.imagen>> = k})

\* the step is taken by a handler task (not a process start), and by task p
HandlerStep(p) == restarts' = restarts /\ task'[p] # task[p]

\* C1: when sell requests for one ticket from two different buyers run
\* concurrently, only one of them records the sale: the Sales table never
\* holds rows of two different buyers for the same ticket.
C1_OneBuyerPerTicket ==
    \A i, j \in DOMAIN reg_df :
        reg_df[i].imagen = reg_df[j].imagen => reg_df[i].usuario_id = reg_df[j].usuario_id

\* C2: a restart after completed sells and returns whose snapshot flushes all
\* succeeded yields a Sales table with exactly the rows it had before.
C2_RestartKeepsSales ==
    [][(/\ restarts = 0
        /\ restarts' = 1
        /\ AllIdle
        /\ registro_csv = reg_df
        /\ devoluciones_csv = devs_df) => SameRows(reg_df', reg_df)]_vars

\* C3: replay never applies a return twice: whenever no handler is running,
\* the Returns table holds, for every (id, name, ticket), as many rows as
\* returns of it were journaled.
C3_OneRowPerReturn ==
    AllIdle =>
        \A u \in UserIds, n \in Tickets :
            KeyCount(devs_df, <<u, NameOfUid(u), n>>)
                = EventCount(devol_log, "devol", <<u, NameOfUid(u), n>>)

\* C4: running the reconciliation a second time with no new journal lines
\* leaves the Sales and Returns tables as the first run left them.
C4_SecondRunChangesNothing ==
    [][(restarts >= 1 /\ restarts' = restarts + 1)
           => (reg_df' = reg_df /\ devs_df' = devs_df)]_vars


\* the journal holds sale events for distinct tickets and no return event,
\* and the snapshot holds the rows of a proper prefix of them
SalesPartlyFlushed ==
    LET ventas == ReadEvents(ventas_log, "venta")
    IN  /\ ReadEvents(devol_log, "devol") = <<>>
        /\ \A i, j \in DOMAIN ventas : i # j => ventas[i].imagen # ventas[j].imagen
        /\ Len(registro_csv) < Len(ventas)
        /\ \A i \in DOMAIN registro_csv :
               registro_csv[i] = RegRow(ventas[i].usuario_id, ventas[i].nombre_usuario,
                                        ventas[i].imagen)

\* C5: with N journaled sales of N distinct tickets, a snapshot holding only
\* the first K < N of them and no returns, one run of the reconciliation
\* yields a Sales table with exactly those N tickets, one row each.
C5_RecoveryCompletesSales ==
    [][(SalesPartlyFlushed /\ restarts' = restarts + 1)
           => LET ventas == ReadEvents(ventas_log, "venta")
              IN  /\ Len(reg_df') = Len(ventas)
                  /\ \A i \in DOMAIN ventas :
                         /\ RowsOfTicket(reg_df', ventas[i].imagen) = 1
                         /\ KeyCount(reg_df', <<ventas[i].usuario_id,
                                ventas[i].nombre_usuario, ventas[i].imagen>>) = 1]_vars

C5_Recovered ==
    /\ restarts = 1
    /\ devol_log = <<>>
    /\ Len(ReadEvents(ventas_log, "venta")) = 2
    /\ Len(reg_df) = 2
    /\ reg_df[1].imagen # reg_df[2].imagen
    /\ registro_csv = reg_df

\* C6: a handler puts a Sale row into reg_df, or moves one to devs_df, only
\* if the matching line was in ventas.log / devoluciones.log before that
\* step, and a snapshot gains a row only if its line was journaled before.
C6_JournalFirst ==
    [][\A u \in UserIds, n \in Tickets :
           LET k == <<u, NameOfUid(u), n>>
               r == RegRow(u, NameOfUid(u), n)
           IN  /\ (restarts' = restarts /\ KeyCount(reg_df', k) > KeyCount(reg_df, k))
                      => Journaled(ventas_log, "venta", r)
               /\ (restarts' = restarts /\ KeyCount(reg_df', k) < KeyCount(reg_df, k))
                      => Journaled(devol_log, "devol", r)
               /\ (restarts' = restarts /\ KeyCount(devs_df', k) > KeyCount(devs_df, k))
                      => Journaled(devol_log, "devol", r)
               /\ KeyCount(registro_csv', k) > KeyCount(registro_csv, k)
                      => Journaled(ventas_log, "venta", r)
               /\ KeyCount(devoluciones_csv', k) > KeyCount(devoluciones_csv, k)
                      => Journaled(devol_log, "devol", r)]_vars

C6_SoldReturnedFlushed ==
    /\ restarts = 0
    /\ AllIdle
    /\ reg_df # <<>>
    /\ devs_df # <<>>
    /\ registro_csv = reg_df
    /\ devoluciones_csv = devs_df

\* the positions of a handler up to and including its journal appends
JournalPcs == {"hm_log", "vc_log", "rc_log"}

BeforeJournalPcs == {"idle", "hm_check", "vc_check", "rc_enter", "rc_reject"} \cup JournalPcs

\* C7: a handler whose journal append fails has not touched the Sales and
\* Returns tables: the failing step leaves them as they are, and no step a
\* handler takes before its appends have all returned changes them.
C7_FailedAppendNoMutation ==
    [][\A p \in Procs :
           (HandlerStep(p) /\ task[p].pc \in BeforeJournalPcs)
               => (reg_df' = reg_df /\ devs_df' = devs_df)]_vars

C7_ReturnAppendFailed ==
    /\ restarts = 0
    /\ AllIdle
    /\ Len(devol_log) = 1
    /\ devs_df = <<>>
    /\ Len(reg_df) = 2


\* C8: with operations executed one at a time (sells, returns, failed
\* operations, restarts), a ticket never has more than one row in reg_df.
C8_OneActiveRowPerTicket ==
    \A n \in Tickets : RowsOfTicket(reg_df, n) <= 1

\* C9: once handle_message has appended the sale lines, it does not finish,
\* normally or with an error from sending the images, without the rows
\* being in reg_df.
C9_JournaledSaleIsInserted ==
    [][\A p \in Procs :
           (/\ HandlerStep(p)
            /\ task[p].op = "hm"
            /\ task[p].pc \notin JournalPcs
            /\ task'[p].pc = "idle")
               => \A i \in DOMAIN task[p].rows :
                      KeyCount(reg_df', <<task[p].uid, task[p].nombre, task[p].rows[i]>>) >= 1]_vars

TicketsOf(rows) == {rows[i].imagen : i \in DOMAIN rows}

\* C10: returning a sold ticket takes its row out of reg_df and puts one row
\* into devs_df, and a later request for the ticket is accepted and inserts
\* its row.
C10_ReturnRoundTrip ==
    [][\A p \in Procs, n \in Tickets :
           /\ (/\ HandlerStep(p)
               /\ task[p].pc = "rc_apply"
               /\ n \in TicketsOf(task[p].rows)
               /\ RowsOfTicket(reg_df, n) = 1
               /\ RowsOfTicket(devs_df, n) = 0)
                  => (RowsOfTicket(reg_df', n) = 0 /\ RowsOfTicket(devs_df', n) = 1)
           /\ (/\ HandlerStep(p)
               /\ task[p].pc \in {"hm_check", "vc_check"}
               /\ n \in task[p].nums
               /\ RowsOfTicket(reg_df, n) = 0
               /\ RowsOfTicket(devs_df, n) = 1)
                  => (task'[p].pc \in JournalPcs /\ n \in Range(task'[p].rows))
           /\ (/\ HandlerStep(p)
               /\ task[p].pc = "insert"
               /\ n \in Range(task[p].rows)
               /\ RowsOfTicket(devs_df, n) = 1)
                  => RowsOfTicket(reg_df', n) = 1]_vars

C10_SoldReturnedSoldAgain ==
    /\ restarts = 0
    /\ AllIdle
    /\ \E n \in Tickets : RowsOfTicket(reg_df, n) = 1 /\ RowsOfTicket(devs_df, n) = 1


LoteRowsOf(dfl, n) == SelectSeq(dfl, LAMBDA r : r.carton = n)

OwnedByOther(dfl, n, nombre) == HasOwner(dfl, n) /\ canon(OwnerOf(dfl, n)) # canon(nombre)

\* C11: /lote for a ticket that another owner holds (names compared without
\* case) lists the ticket with its current owner among the conflicts it
\* reports and leaves the ticket's assignment as it is; a request made only
\* of such tickets leaves lotes_df unchanged.
C11_ConflictLeavesLote ==
    [][\A p \in Procs :
           /\ (HandlerStep(p) /\ task[p].pc = "idle" /\ task'[p].op = "lt")
                 => /\ \A n \in task'[p].nums :
                           OwnedByOther(lotes_df, n, task'[p].nombre)
                               => /\ <<n, OwnerOf(lotes_df, n)>> \in Range(task'[p].conflictos)
                                  /\ LoteRowsOf(lotes_df', n) = LoteRowsOf(lotes_df, n)
                    /\ (\A n \in task'[p].nums : OwnedByOther(lotes_df, n, task'[p].nombre))
                           => lotes_df' = lotes_df
           /\ (HandlerStep(p) /\ task[p].op = "lt" /\ task'[p].pc = "sl_reply")
                 => task'[p].conflictos = task[p].conflictos]_vars

C11_ConflictReported ==
    \E p \in Procs :
        /\ task[p].op = "lt"
        /\ task[p].pc = "sl_reply"
        /\ task[p].conflictos # <<>>
        /\ \A i \in DOMAIN task[p].conflictos :
               LET n == task[p].conflictos[i][1]
               IN  /\ OwnedByOther(lotes_df, n, task[p].nombre)
                   /\ OwnerOf(lotes_df, n) = task[p].conflictos[i][2]

\* C12: under any interleaving of /lote and /quitar_lote a ticket number is
\* in at most one row of lotes_df (so assigning a ticket to its owner again
\* adds no row).
C12_OneLoteRowPerTicket ==
    \A n \in Tickets : Len(LoteRowsOf(lotes_df, n)) <= 1

C12_AssignedAgain ==
    \E p \in Procs, n \in Tickets :
        /\ task[p].op = "lt"
        /\ task[p].pc = "sl_reply"
        /\ n \in task[p].nums
        /\ n \notin Range(task[p].rows)
        /\ HasOwner(lotes_df, n)
        /\ canon(OwnerOf(lotes_df, n)) = canon(task[p].nombre)
        /\ OwnerOf(lotes_df, n) # task[p].nombre


\* C13: during and after atomic_write_csv, also when it fails or the process
\* is stopped before the rename, the target file holds the complete previous
\* content or the complete new content.
C13_SnapshotOldOrNew ==
    registro_csv = aw.old \/ registro_csv = aw.df

C13_StoppedMidWrite ==
    /\ aw.pc = "killed"
    /\ aw.tmp_exists
    /\ aw.tmp # <<>>
    /\ aw.tmp # aw.df
    /\ aw.old # <<>>
    /\ registro_csv = aw.old
    /\ registro_csv # aw.df

AttemptsBounded ==
    /\ al.attempt <= AppendRetries
    /\ aw.attempt <= WriteRetries
    /\ al.pc = "returned" => (ventas_log # <<>> /\ ventas_log[Len(ventas_log)] = al.line)
    /\ al.pc = "raised" => (al.last_exc /\ ventas_log = <<>>)
    /\ aw.pc = "returned" => registro_csv = aw.df
    /\ aw.pc = "raised" => registro_csv = aw.old

\* C14: append_log_line makes at most 5 attempts and atomic_write_csv at most
\* 6; a call returns after a successful write or raises after a failed
\* attempt, and a call that is not stopped always comes to one of the two.
C14_RetriesBounded ==
    /\ []AttemptsBounded
    /\ <>(al.pc \in {"returned", "raised"})
    /\ <>(aw.pc \in {"returned", "raised", "killed"})

C14_BothGaveUp ==
    /\ al.pc = "raised"
    /\ al.attempt = AppendRetries
    /\ aw.pc = "raised"
    /\ aw.attempt = WriteRetries
    /\ aw.last_exc


WellFormedAndShort ==
    /\ Len(ventas_log) = 2
    /\ Len(ReadEvents(ventas_log, "venta")) = 1
    /\ \E i \in DOMAIN ventas_log : ventas_log[i] = ShortLine
    /\ devol_log = <<>>
    /\ registro_csv = <<>>

\* C15: reconciling a journal with one well-formed sale line and one line of
\* three fields applies the well-formed line and reports exactly one
\* skipped line.
C15_SkippedLineReported ==
    [][(WellFormedAndShort /\ restarts = 0 /\ restarts' = 1)
           => LET v == ReadEvents(ventas_log, "venta")[1]
              IN  /\ reg_df' = <<RegRow(v.usuario_id, v.nombre_usuario, v.imagen)>>
                  /\ Len(ReconcileWarnings(load_all_sync(registro_csv), ventas_log,
                                           devol_log, TRUE, TRUE, TRUE)) = 1]_vars

\* C16: in the reconciliation a return event whose key matches no row of the
\* Sales table removes no Sale row and adds no Return row, and the
\* reconciliation runs to its end.
C16_UnmatchedReturnIsNoOp ==
    [][(restarts' = restarts + 1)
           => LET merged == MergeVentas(load_all_sync(registro_csv),
                                        ReadEvents(ventas_log, "venta"))
                  devols == ReadEvents(devol_log, "devol")
              IN  /\ \A i \in DOMAIN devols :
                         LET k == <<devols[i].usuario_id, devols[i].nombre_usuario,
                                    devols[i].imagen>>
                         IN  KeyCount(merged, k) = 0
                                 => /\ KeyCount(reg_df', k) = 0
                                    /\ KeyCount(devs_df', k)
                                           = KeyCount(load_all_sync(devoluciones_csv), k)
                  /\ (\A i \in DOMAIN devols :
                          KeyCount(merged, <<devols[i].usuario_id, devols[i].nombre_usuario,
                                             devols[i].imagen>>) = 0)
                         => /\ reg_df' = merged
                            /\ devs_df' = load_all_sync(devoluciones_csv)
                            /\ devoluciones_csv' = devoluciones_csv]_vars

C16_UnmatchedReturnSeen ==
    /\ restarts = 1
    /\ Len(ReadEvents(devol_log, "devol")) = 1
    /\ devs_df = <<>>
    /\ devoluciones_csv = <<>>
    /\ Len(reg_df) = 2


\* the buyer of task p holds none of the tickets the task asks to return
NotOwned(p) ==
    ~\E i \in DOMAIN reg_df :
        reg_df[i].usuario_id = task[p].uid /\ reg_df[i].imagen \in task[p].nums

\* C17: a return for tickets none of which the buyer holds is rejected: it
\* appends nothing to devoluciones.log and leaves reg_df and devs_df as they
\* are; and a return removes and journals only rows of the buyer who asks.
C17_NotOwnedReturnRejected ==
    [][\A p \in Procs :
           /\ (HandlerStep(p) /\ task[p].pc = "rc_enter" /\ NotOwned(p))
                 => /\ task'[p].pc = "rc_reject"
                    /\ UNCHANGED <<devol_log, reg_df, devs_df>>
           /\ (HandlerStep(p) /\ task[p].pc = "rc_reject")
                 => /\ task'[p].pc = "idle"
                    /\ UNCHANGED <<devol_log, reg_df, devs_df>>
           /\ (HandlerStep(p) /\ task[p].op = "rc")
                 => /\ \A u \in UserIds, n \in Tickets :
                           KeyCount(reg_df', <<u, NameOfUid(u), n>>)
                               < KeyCount(reg_df, <<u, NameOfUid(u), n>>)
                             => u = task[p].uid
                    /\ devol_log' # devol_log
                           => devol_log'[Len(devol_log')][2] = Str(task[p].uid)]_vars

C17_OthersTicketRefused ==
    \E p \in Procs :
        /\ task[p].pc = "rc_reject"
        /\ NotOwned(p)
        /\ \E i \in DOMAIN reg_df : reg_df[i].imagen \in task[p].nums
        /\ devol_log = <<>>
        /\ devs_df = <<>>


\* the assignments allow ticket n to the buyer called nombre
LoteAllows(dfl, nombre, n) ==
    /\ ~OwnedByOther(dfl, n, nombre)
    /\ LoteOf(dfl, nombre) # {} => n \in LoteOf(dfl, nombre)

\* C18: a Sale row for ticket T and buyer B is inserted only if, in lotes_df
\* as it is at the insertion, T is not assigned to another owner and, when B
\* has assignments, T is one of them.
C18_InsertRespectsLote ==
    [][\A p \in Procs :
           (HandlerStep(p) /\ task[p].pc = "insert" /\ reg_df' # reg_df)
               => \A i \in DOMAIN task[p].rows :
                      LoteAllows(lotes_df, task[p].nombre, task[p].rows[i])]_vars

\* the place of the first line for a key in ventas.log, 0 if there is none
FirstLine(log, tipo, k) ==
    LET S == {i \in DOMAIN log :
                 LET e == parse_log_line(log[i])
                 IN  e.tipo = tipo /\ <<e.usuario_id, e.nombre_usuario, e.imagen>> = k}
    IN  IF S = {} THEN 0 ELSE CHOOSE i \in S : \A j \in S : i <= j

\* C19: the sale lines are in ventas.log in the order in which their rows
\* entered reg_df: of two rows sold once each, the one earlier in reg_df has
\* the earlier line.
C19_JournalOrderIsInsertOrder ==
    \A i, j \in DOMAIN reg_df :
        (/\ i < j
         /\ EventCount(ventas_log, "venta", Key(reg_df[i])) = 1
         /\ EventCount(ventas_log, "venta", Key(reg_df[j])) = 1
         /\ KeyCount(reg_df, Key(reg_df[i])) = 1
         /\ KeyCount(reg_df, Key(reg_df[j])) = 1)
            => FirstLine(ventas_log, "venta", Key(reg_df[i]))
                   < FirstLine(ventas_log, "venta", Key(reg_df[j]))

\* C20: a handler appends to ventas.log or devoluciones.log only while it
\* holds reg_lock.
C20_AppendUnderLock ==
    [][\A p \in Procs :
           (HandlerStep(p) /\ (ventas_log' # ventas_log \/ devol_log' # devol_log))
               => reg_lock.holder = p]_vars

\* the positions at which a handler is suspended in a call of the bot API
\* (reply_text_retry, send_document_retry)
ApiPcs == {"rc_reject", "hm_send", "sl_reply"}

\* C21: no handler holds a lock of the Store while it awaits a call of the
\* bot API.
C21_NoLockAcrossApiCall ==
    \A p \in Procs : task[p].pc \in ApiPcs => reg_lock.holder # p

\* C22: when every sale and return and every save_reg that followed them
\* has completed, registro.csv holds exactly the rows of reg_df.
C22_FlushesConverge ==
    (AllIdle /\ nops > 0) => registro_csv = reg_df

\* the positions at which a task is suspended in asyncio.to_thread while
\* atomic_write_csv writes the copy a save_* made
WritePcs == {"sv_write", "sd_write", "sl_write"}

C27_ReturnsAppendOnly ==
    [][\A i \in DOMAIN devs_df : devs_df[i] \in Range(devs_df')]_vars

\* a return has just added its row to a Returns table that held a row of
\* an earlier return
C27_SecondReturnApplied ==
    \E p \in Procs :
        /\ task[p].op = "rc"
        /\ task[p].pc = "sv_copy"
        /\ Len(task[p].rows) = 1
        /\ Len(devs_df) = 2

\* C28: when the writes of reconcile_from_logs_sync succeed, then on its
\* return registro.csv holds exactly the rows of reg_df and
\* devoluciones.csv exactly the rows of devs_df, whatever rows the replay
\* added or removed.
C28_ReconcileClosesGap ==
    [][restarts' = restarts + 1
           => (registro_csv' = reg_df' /\ devoluciones_csv' = devs_df')]_vars

\* a start-up whose replay took a returned row out of the Sales table, made
\* its Return row and left another sale in place
C28_AddedAndRemoved ==
    /\ restarts = 1
    /\ Len(devs_df) = 1
    /\ Len(reg_df) = 1
    /\ Len(ReadEvents(ventas_log, "venta")) = 2
    /\ registro_csv = reg_df
    /\ devoluciones_csv = devs_df

\* the operations of the administrator on the assignments
LoteOps == {"lt", "ql"}

\* C29: no step of comando_lote or quitar_lote appends to ventas.log or
\* devoluciones.log or changes the Sales, Returns or Users table or their
\* snapshots; only lotes_df and lotes.csv change.
C29_LoteTouchesOnlyLotes ==
    [][\A p \in Procs :
           (HandlerStep(p) /\ (task[p].op \in LoteOps \/ task'[p].op \in LoteOps))
               => UNCHANGED <<ventas_log, devol_log, reg_df, devs_df, users_df,
                              registro_csv, devoluciones_csv, usuarios_csv>>]_vars

\* a /quitar_lote has written lotes.csv and is about to reply while a sale
\* of one of its numbers is in the Sales table and the journal
C29_UnassignedAfterSale ==
    \E p \in Procs :
        /\ task[p].op = "ql"
        /\ task[p].pc = "sl_reply"
        /\ lotes_csv = lotes_df
        /\ \E i \in DOMAIN reg_df : reg_df[i].imagen \in task[p].nums
        /\ ventas_log # <<>>

\* C30: when os.replace fails on a locked target and attempts remain, only
\* the rename is tried again: the temporary file written for the failed
\* attempt is still there, with the same rows, when the next attempt begins.
C30_RenameRetriedAlone ==
    [][(aw.pc = "write" /\ aw'.pc = "loop" /\ aw'.attempt < WriteRetries)
           => (aw'.tmp_exists /\ aw'.tmp = aw.tmp)]_vars

\* C24: the tables are loaded and reconcile_from_logs_sync runs exactly once
\* in a process, at its start; no handler runs it again.
C24_ReconciledOnce == reconciled <= 1

\* C26: no two rows of the Users table share a user id, and no two rows
\* have user names that are equal under case folding.
C26_UniqueUsers ==
    \A i, j \in DOMAIN users_df :
        i # j => /\ users_df[i].usuario_id # users_df[j].usuario_id
                 /\ canon(users_df[i].nombre_usuario) # canon(users_df[j].nombre_usuario)

\* ticket n may be listed for the owner: it is in the range, no row of the
\* Sales table has it, and it is assigned to the owner or, if the owner has
\* no assignment at all, to nobody
MayList(reg, lotes, nombre, inicio, fin, n) ==
    LET mine == {i \in DOMAIN lotes : canon(lotes[i].nombre_usuario) = canon(nombre)}
    IN  /\ inicio <= n /\ n <= fin
        /\ \A i \in DOMAIN reg : reg[i].imagen # n
        /\ \/ \E i \in mine : lotes[i].carton = n
           \/ mine = {} /\ \A i \in DOMAIN lotes : lotes[i].carton # n

\* C25: mostrar_disponibles changes no table, journal or snapshot, and every
\* ticket in the list it makes for a registered user lies in the range, has
\* no active sale and is assigned to that user or, when the user has no
\* assignments, to nobody.
C25_QueryReadOnlyAndRight ==
    [][\A p \in Procs :
           (HandlerStep(p) /\ (task[p].op = "md" \/ task'[p].op = "md"))
               => /\ UNCHANGED <<users_df, reg_df, lotes_df, devs_df, ventas_log, devol_log,
                                 registro_csv, devoluciones_csv, lotes_csv, usuarios_csv>>
                  /\ task[p].pc = "md_read"
                        => \A i \in DOMAIN task'[p].rows :
                               MayList(reg_df, lotes_df, task[p].nombre,
                                       task[p].todo[1], task[p].todo[2], task'[p].rows[i])]_vars

\* a list was made for a user who has two assignments of which one is sold:
\* it holds the other one
C25_ListedOwnUnsold ==
    \E p \in Procs :
        /\ task[p].op = "md"
        /\ task[p].pc = "md_reply"
        /\ Len(task[p].rows) = 1
        /\ Len(reg_df) = 1
        /\ \E i \in DOMAIN lotes_df :
               /\ canon(lotes_df[i].nombre_usuario) = canon(task[p].nombre)
               /\ lotes_df[i].carton = reg_df[1].imagen
        /\ \E i \in DOMAIN lotes_df :
               /\ canon(lotes_df[i].nombre_usuario) = canon(task[p].nombre)
               /\ lotes_df[i].carton = task[p].rows[1]

\* the last n elements of a sequence
LastN(s, n) == SubSeq(s, Len(s) - n + 1, Len(s))

\* C36: when remover_carton applies a return, the rows that leave reg_df,
\* the rows that enter devs_df and the lines the handler appended to
\* devoluciones.log correspond one to one, key by key; hence a requested
\* ticket the buyer does not hold changes nothing.
C36_ReturnConservation ==
    [][\A p \in Procs :
           (HandlerStep(p) /\ task[p].op = "rc" /\ task[p].pc = "rc_apply")
               => LET n == Len(devs_df') - Len(devs_df)
                      added == LastN(devs_df', n)
                      lines == LastN(devol_log, n)
                  IN  /\ n > 0
                      /\ n <= Len(devol_log)
                      /\ SubSeq(devs_df', 1, Len(devs_df)) = devs_df
                      /\ \A k \in KeysOf(reg_df) \cup KeysOf(added) :
                             /\ k[1] = task[p].uid
                                    \/ KeyCount(reg_df', k) = KeyCount(reg_df, k)
                             /\ KeyCount(reg_df, k) - KeyCount(reg_df', k) = KeyCount(added, k)
                             /\ EventCount(lines, "devol", k) = KeyCount(added, k)
                      /\ \A i \in DOMAIN lines :
                             parse_log_line(lines[i]).tipo = "devol"]_vars

\* a return that asked for two tickets, of which the buyer held one, has
\* been applied: one line, one row removed, one Return row
C36_PartlyHeldReturnApplied ==
    \E p \in Procs :
        /\ task[p].op = "rc"
        /\ task[p].pc = "sv_copy"
        /\ Cardinality(task[p].nums) = 2
        /\ Len(task[p].rows) = 1
        /\ Len(devol_log) = 1
        /\ Len(devs_df) = 1

\* C33: the line a handler appends to ventas.log or devoluciones.log is read
\* back by parse_log_line as the event that was written: same type, same
\* user id, same user name, same ticket.
C33_LineRoundTrip ==
    [][\A p \in Procs :
           /\ (HandlerStep(p) /\ ventas_log' # ventas_log)
                  => LET e == parse_log_line(ventas_log'[Len(ventas_log')])
                     IN  /\ e.tipo = "venta"
                         /\ e.usuario_id = task[p].uid
                         /\ e.nombre_usuario = task[p].nombre
                         /\ e.imagen = Head(task[p].todo)
           /\ (HandlerStep(p) /\ devol_log' # devol_log)
                  => LET e == parse_log_line(devol_log'[Len(devol_log')])
                         fila == Head(task[p].todo)
                     IN  /\ e.tipo = "devol"
                         /\ e.usuario_id = fila.usuario_id
                         /\ e.nombre_usuario = fila.nombre_usuario
                         /\ e.imagen = fila.imagen]_vars

\* C34: while a range is defined, every row that handle_message or
\* vendido_cmd puts into reg_df has its ticket number inside the range.
C34_InsertedInRango ==
    [][\A p \in Procs :
           (HandlerStep(p) /\ task[p].pc = "insert" /\ RANGO # <<>>)
               => \A i \in DOMAIN reg_df' :
                      i > Len(reg_df)
                          => (RANGO[1] <= reg_df'[i].imagen /\ reg_df'[i].imagen <= RANGO[2])]_vars

\* the rows vendido_cmd inserts are inside a defined range
VendidoInRango ==
    [][\A p \in Procs :
           (HandlerStep(p) /\ task[p].pc = "insert" /\ task[p].op = "vc" /\ RANGO # <<>>)
               => \A i \in DOMAIN reg_df' :
                      i > Len(reg_df)
                          => (RANGO[1] <= reg_df'[i].imagen /\ reg_df'[i].imagen <= RANGO[2])]_vars

\* C35: once reset_registro has completed, a sale adds a row only with its
\* line in the current ventas.log: a sale that was in flight while the
\* reset ran adds no row afterwards.
C35_NoRowFromBeforeReset ==
    [][\A p \in Procs :
           (/\ HandlerStep(p)
            /\ task[p].pc = "insert"
            /\ \A q \in Procs : task[q].op # "rs")
               => \A i \in DOMAIN reg_df' :
                      i > Len(reg_df) => Journaled(ventas_log', "venta", reg_df'[i])]_vars

\* C37: at most one delayed-shutdown task is pending at any time
C37_OneShutdownPending == Cardinality(off.alive) <= 1

Queued(p) == p \in Range(reg_lock.waiters) \cup Range(users_lock.waiters)

\* a task that has users_lock and also has or awaits reg_lock
HoldsTwo(p) ==
    /\ users_lock.holder = p
    /\ reg_lock.holder = p \/ p \in Range(reg_lock.waiters)

C31_AppendReturns == (nube.CSV_LOCK = 1) ~> (nube.CSV_LOCK = 0)

=============================================================================
